---- MODULE Spec2Model ----
(***************************************************************************)
(* Workspace / workflow graph engine of ect.ui.workspace.                  *)
(*                                                                         *)
(* Spec          : one in-memory Workspace object and set_resource.        *)
(* SpecSuccess   : the same, with the calls that return normally only.     *)
(* SpecFS        : the file system, Workspace.create/load/store/delete,    *)
(*                 the FSWorkspaceManager operations and their             *)
(*                 interruption.                                           *)
(* SpecRoundTrip : a created Workspace stored and loaded, written as JSON  *)
(*                 and read back.                                          *)
(* SpecExec      : the manager executing the workflow to write or plot a   *)
(*                 resource.                                               *)
(* SpecWeb       : WebAPIWorkspaceManager against any network and server.  *)
(* SpecBoth      : every call made on FSWorkspaceManager and on             *)
(*                 WebAPIWorkspaceManager with a service in the same state. *)
(* SpecConcurrent: calls of FSWorkspaceManager on different base            *)
(*                 directories, statement by statement, interleaved.        *)
(* SpecFigures:    a FigureRegistry and its observers.                      *)
(* SpecSameDir:    two callers in get_workspace on the same base directory. *)
(* SpecReadOnly:   SpecExec and get_workspace.                              *)
(* SpecAsserted:   set_resource and set_workspace_resource with and without *)
(*                 names and arguments.                                    *)
(* SpecHarmonize:  harmonize on lists of datasets.                          *)
(* SpecManagers:   two FSWorkspaceManager objects on one base directory.    *)
(* SpecManager:    the methods of one FSWorkspaceManager, one call after    *)
(*                 the other.                                               *)
(* SpecManagerAndWorkspace: the same, and Workspace.delete.                 *)
(***************************************************************************)
EXTENDS Integers, Sequences, FiniteSets, TLC

VARIABLES
    workflow,   \* Workspace._workflow of the Workspace object under Spec
    nextUid,    \* identity given to the next step object put into a workflow
    last,       \* the last call: its arguments (as far as needed) and outcome
    fs,         \* per base directory: the workspace directory and workflow file
    cache,      \* FSWorkspaceManager._workspace_cache (under SpecManagers: of each manager)
    nextWid,    \* identity given to the next Workspace object put into the cache
    history,    \* per base directory: what the manager's callers have seen
    calls,      \* per caller (one for each base directory): its manager call under way
    registry,   \* a FigureRegistry, its observers and what they have observed
    datasets    \* the list of datasets handed to harmonize: of each its dimension names

vars == <<workflow, nextUid, last, fs, cache, nextWid, history, calls, registry, datasets>>

(***************************************************************************)
(* Bounds                                                                  *)
(***************************************************************************)
\* number of step objects that may be put into workflows in one behaviour
MaxUid == 3
\* longest op_args list passed to set_resource
MaxArgs == 2
\* number of Workspace objects the manager may cache in one behaviour
MaxWid == 2
\* number of Figure objects made and added to the FigureRegistry
MaxFigures == 3
\* number of step objects that may be put into workflows under SpecFS and
\* SpecBoth
MaxFSUid == 2
\* the longest list of datasets handed to harmonize
MaxDatasets == 2

(***************************************************************************)
(* Names, operation registry                                               *)
(***************************************************************************)
\* resource names, in the order used wherever an order is needed
NameOrder == <<"a", "b">>
Names == {NameOrder[i] : i \in 1..Len(NameOrder)}

RETURN_OUTPUT_NAME == "return"
\* the output of an operation with named outputs that expressions may address
NAMED_OUTPUT_NAME == "out1"

\* OP_REGISTRY: "op1" has the single 'return' output, "opn" has named outputs
OpNames == {"op1", "opn"}
\* an operation name the registry does not know
UnknownOp == "nop"
CallOpNames == OpNames \cup {UnknownOp}

\* op_meta_info.input: the declared parameters, in declaration order
InputOrder == <<"x", "y">>
OpInputs(op) == {InputOrder[i] : i \in 1..Len(InputOrder)}

has_named_outputs(op) == op = "opn"
OpOutputs(op) == IF has_named_outputs(op) THEN {NAMED_OUTPUT_NAME, "out2"}
                 ELSE {RETURN_OUTPUT_NAME}

(***************************************************************************)
(* Ports, steps, workflows                                                 *)
(***************************************************************************)
\* A NodePort is unset, holds a value, or has a source: the output port
\* `port` of the step named `node`; tgt is the identity of the step object
\* the source is bound to, 0 while the reference is unresolved.
UnsetPort == [t |-> "unset", v |-> "", node |-> "", port |-> "", tgt |-> 0]
ValuePort(v) == [t |-> "val", v |-> v, node |-> "", port |-> "", tgt |-> 0]
SourcePort(node, port, tgt) ==
    [t |-> "src", v |-> "", node |-> node, port |-> port, tgt |-> tgt]

\* OpStep(op, res_name) with all inputs unset
OpStep(op, res_name, uid) ==
    [id |-> res_name, uid |-> uid, op |-> op,
     input |-> [p \in OpInputs(op) |-> UnsetPort]]

\* Workspace.new_workflow(header_dict)
new_workflow(description) ==
    [header |-> description, steps |-> <<>>, output |-> [n \in Names |-> UnsetPort]]

StepIds(wf) == {wf.steps[i].id : i \in 1..Len(wf.steps)}
StepIndex(wf, id) == CHOOSE i \in 1..Len(wf.steps) : wf.steps[i].id = id
FindNode(wf, id) == wf.steps[StepIndex(wf, id)]
\* the graph-level output names
OutputNames(wf) == {n \in Names : wf.output[n].t # "unset"}

SetMin(S) == CHOOSE m \in S : \A k \in S : m <= k

(***************************************************************************)
(* Workflow.add_step and Workflow.resolve_source_refs                      *)
(***************************************************************************)
\* a port bound to the step object uid loses its binding
InvalidatePort(port, uid) ==
    IF port.t = "src" /\ port.tgt = uid THEN SourcePort(port.node, port.port, 0)
    ELSE port

\* Workflow.add_step(step, can_exist=True): append, or replace the step of
\* the same id in place; bindings held on the replaced step object are
\* invalidated.
add_step(wf, step) ==
    IF step.id \in StepIds(wf)
    THEN LET i == StepIndex(wf, step.id)
             old == wf.steps[i]
             put == [wf.steps EXCEPT ![i] = step]
         IN [wf EXCEPT
               !.steps = [j \in 1..Len(put) |->
                            [put[j] EXCEPT !.input =
                               [p \in DOMAIN put[j].input |->
                                  InvalidatePort(put[j].input[p], old.uid)]]],
               !.output = [n \in Names |-> InvalidatePort(wf.output[n], old.uid)]]
    ELSE [wf EXCEPT !.steps = Append(wf.steps, step)]

\* the ports of a workflow in the order resolve_source_refs walks them:
\* the inputs of each step, then the graph-level outputs
NumInputs == Len(InputOrder)
NumPorts(wf) == Len(wf.steps) * NumInputs + Len(NameOrder)
PortAt(wf, k) ==
    IF k <= Len(wf.steps) * NumInputs
    THEN wf.steps[((k - 1) \div NumInputs) + 1].input[InputOrder[((k - 1) % NumInputs) + 1]]
    ELSE wf.output[NameOrder[k - Len(wf.steps) * NumInputs]]

Unresolved(port) == port.t = "src" /\ port.tgt = 0
\* the referenced step and output port exist
HasTarget(wf, port) ==
    /\ port.node \in StepIds(wf)
    /\ port.port \in OpOutputs(FindNode(wf, port.node).op)
ResolvePort(wf, port) ==
    IF Unresolved(port) /\ HasTarget(wf, port)
    THEN SourcePort(port.node, port.port, FindNode(wf, port.node).uid)
    ELSE port

\* Workflow.resolve_source_refs(): bind every unresolved source reference by
\* name; the walk stops with an error at the first reference without target.
resolve_source_refs(wf) ==
    LET dangling == {k \in 1..NumPorts(wf) :
                        Unresolved(PortAt(wf, k)) /\ ~HasTarget(wf, PortAt(wf, k))}
        stop == IF dangling = {} THEN NumPorts(wf) + 1 ELSE SetMin(dangling)
        InK(i, q) == (i - 1) * NumInputs + q
        OutK(j) == Len(wf.steps) * NumInputs + j
    IN [err |-> IF dangling = {} THEN "ok" ELSE "UnresolvedReference",
        wf |-> [wf EXCEPT
                  !.steps = [i \in 1..Len(wf.steps) |->
                               [wf.steps[i] EXCEPT !.input =
                                  [p \in DOMAIN wf.steps[i].input |->
                                     LET q == CHOOSE q \in 1..NumInputs : InputOrder[q] = p
                                     IN IF InK(i, q) < stop
                                        THEN ResolvePort(wf, wf.steps[i].input[p])
                                        ELSE wf.steps[i].input[p]]]],
                  !.output = [n \in Names |->
                               LET j == CHOOSE j \in 1..Len(NameOrder) : NameOrder[j] = n
                               IN IF OutK(j) < stop THEN ResolvePort(wf, wf.output[n])
                                  ELSE wf.output[n]]]]

(***************************************************************************)
(* Workflow execution: workflow(monitor=...)                               *)
(***************************************************************************)
\* the step objects whose outputs a step reads
SourceUids(step) ==
    {step.input[p].tgt : p \in {q \in DOMAIN step.input : step.input[q].t = "src"}}
StepUids(wf) == {wf.steps[i].uid : i \in 1..Len(wf.steps)}
SeqRange(q) == {q[k] : k \in 1..Len(q)}

\* The evaluation order of the steps at the places `needed`: a step is
\* evaluated once the steps it reads from are; among the steps that are
\* ready the one inserted first comes first.  done is the order so far.
RECURSIVE Schedule(_, _, _)
Schedule(wf, needed, done) ==
    LET ready == {i \in needed \ SeqRange(done) :
                    SourceUids(wf.steps[i]) \subseteq {wf.steps[j].uid : j \in SeqRange(done)}}
    IN IF ready = {} THEN done ELSE Schedule(wf, needed, Append(done, SetMin(ready)))

\* every source is bound to a step of the workflow and no step depends on
\* itself: the workflow can be executed
Executable(wf) ==
    /\ \A i \in 1..Len(wf.steps) : SourceUids(wf.steps[i]) \subseteq StepUids(wf)
    /\ \A n \in OutputNames(wf) : wf.output[n].tgt \in StepUids(wf)
    /\ Len(Schedule(wf, 1..Len(wf.steps), <<>>)) = Len(wf.steps)

\* the places of the steps that S depends on, S included, in k rounds
RECURSIVE DependsOn(_, _, _)
DependsOn(wf, S, k) ==
    IF k = 0 THEN S
    ELSE DependsOn(wf, S \cup {i \in 1..Len(wf.steps) :
                                  \E j \in S : wf.steps[i].uid \in SourceUids(wf.steps[j])},
                   k - 1)
\* the steps required for the graph-level outputs `names`
RequiredSteps(wf, names) ==
    DependsOn(wf, {i \in 1..Len(wf.steps) :
                      \E n \in names \cap OutputNames(wf) : wf.output[n].tgt = wf.steps[i].uid},
              Len(wf.steps))

\* Executing the workflow for the requested names, all graph-level outputs
\* if none is requested; the operations of the steps named in `failing`
\* fail.  Yields the error, the steps invoked in their order and the names
\* of the mapping returned.
execute(wf, requested, failing) ==
    LET names == IF requested = {} THEN OutputNames(wf) ELSE requested
        order == Schedule(wf, RequiredSteps(wf, names), <<>>)
        ids == [k \in 1..Len(order) |-> wf.steps[order[k]].id]
        failed == {k \in 1..Len(ids) : ids[k] \in failing}
    IN IF failed = {}
       THEN [err |-> "ok", invoked |-> ids, result |-> names]
       ELSE [err |-> "ExecutionError", invoked |-> SubSeq(ids, 1, SetMin(failed)),
             result |-> {}]

\* What is handed to the writer or plotter: the value computed for one
\* resource, or the mapping of resource names to values
NoObject == [kind |-> "none", res |-> "", names |-> {}]
Value(res_name) == [kind |-> "value", res |-> res_name, names |-> {}]
Mapping(names) == [kind |-> "mapping", res |-> "", names |-> names]

(***************************************************************************)
(* parse_op_args and OpMetaInfo.validate_input_values                      *)
(***************************************************************************)
\* A raw argument "key=expression"; key "" is a positional argument.  The
\* expression is a literal of the declared type ("lit"), a literal of another
\* type ("badlit"), a resource name ("ref"), an output of a resource
\* ("port": name.out1) or text that does not parse ("bad").
RawArg(key, e, n) == [key |-> key, e |-> e, n |-> n]

\* the namespace of set_resource: step id -> the step's output namespace
StepNamespace(wf) ==
    [n \in StepIds(wf) |-> [uid |-> FindNode(wf, n).uid,
                            outs |-> OpOutputs(FindNode(wf, n).op)]]

ArgParses(arg, namespace) ==
    CASE arg.e \in {"lit", "badlit"} -> TRUE
      [] arg.e = "ref" -> arg.n \in DOMAIN namespace
      [] arg.e = "port" -> /\ arg.n \in DOMAIN namespace
                           /\ NAMED_OUTPUT_NAME \in namespace[arg.n].outs
      [] OTHER -> FALSE

\* the value an expression evaluates to: a literal, a Namespace of the
\* outputs of a step ("ns") or one NodePort of a step ("port")
ArgValue(arg, namespace) ==
    CASE arg.e = "lit" -> [t |-> "lit", v |-> "good", node |-> "", uid |-> 0, outs |-> {}]
      [] arg.e = "badlit" -> [t |-> "lit", v |-> "bad", node |-> "", uid |-> 0, outs |-> {}]
      [] arg.e = "ref" -> [t |-> "ns", v |-> "", node |-> arg.n,
                           uid |-> namespace[arg.n].uid, outs |-> namespace[arg.n].outs]
      [] OTHER -> [t |-> "port", v |-> "", node |-> arg.n,
                   uid |-> namespace[arg.n].uid, outs |-> {NAMED_OUTPUT_NAME}]

\* parse_op_args(raw_op_args, namespace) -> (op_args, op_kwargs), ValueError
parse_op_args(raw, namespace) ==
    LET ok == \A i \in 1..Len(raw) : ArgParses(raw[i], namespace)
        val == [i \in 1..Len(raw) |->
                  IF ok THEN [key |-> raw[i].key, val |-> ArgValue(raw[i], namespace)]
                  ELSE [key |-> raw[i].key, val |-> UnsetPort]]
    IN [ok |-> ok,
        args |-> SelectSeq(val, LAMBDA a : a.key = ""),
        kwargs |-> SelectSeq(val, LAMBDA a : a.key # "")]

\* validate_input_values(op_kwargs, except_types): every literal given for
\* a declared parameter has the declared type; values from the graph are
\* not checked
validate_input_values(op, kwargs) ==
    \A i \in 1..Len(kwargs) :
        (kwargs[i].key \in OpInputs(op) /\ kwargs[i].val.t = "lit")
            => kwargs[i].val.v = "good"

(***************************************************************************)
(* Workspace.set_resource                                                  *)
(***************************************************************************)
\* a key that is no input of the operation is skipped instead of refused
BindError_IgnoresUnknown(op, kv) ==
    IF kv.key \in OpInputs(op) /\ kv.val.t = "ns" /\ RETURN_OUTPUT_NAME \notin kv.val.outs
    THEN "IllegalValue"
    ELSE "ok"

\* why binding one keyword argument to the candidate step raises, or "ok"
BindError(op, kv) ==
    IF kv.key \notin OpInputs(op) THEN "UnknownParameter"
    ELSE IF kv.val.t = "ns" /\ RETURN_OUTPUT_NAME \notin kv.val.outs THEN "IllegalValue"
    ELSE "ok"

\* the input port of the candidate step after binding one keyword argument
BoundPort(kv) ==
    CASE kv.val.t = "port" -> SourcePort(kv.val.node, NAMED_OUTPUT_NAME, kv.val.uid)
      [] kv.val.t = "ns" -> SourcePort(kv.val.node, RETURN_OUTPUT_NAME, kv.val.uid)
      [] OTHER -> ValuePort(kv.val.v)

\* only sources are bound: an argument that is a value is left out
BindInputs_SourcesOnly(step, kwargs) ==
    [step EXCEPT !.input =
        [p \in DOMAIN step.input |->
            LET at == {i \in 1..Len(kwargs) : kwargs[i].key = p /\ kwargs[i].val.t # "lit"}
            IN IF at = {} THEN step.input[p]
               ELSE BoundPort(kwargs[CHOOSE i \in at : \A j \in at : j <= i])]]

\* the candidate step after the loop over op_kwargs has bound every argument
\* (of two arguments with the same key the later one stays)
BindInputs(step, kwargs) ==
    [step EXCEPT !.input =
        [p \in DOMAIN step.input |->
            LET at == {i \in 1..Len(kwargs) : kwargs[i].key = p}
            IN IF at = {} THEN step.input[p]
               ELSE BoundPort(kwargs[CHOOSE i \in at : \A j \in at : j <= i])]]

\* source references are not resolved again after a step was replaced
InsertStep_NoResolve(wf, op_step, does_exist) ==
    LET added == add_step(wf, op_step)
    IN IF has_named_outputs(op_step.op)
       THEN [err |-> "NamedOutputs", wf |-> added]
       ELSE [err |-> "ok",
             wf |-> [added EXCEPT !.output[op_step.id] =
                        SourcePort(op_step.id, RETURN_OUTPUT_NAME, op_step.uid)]]

\* the graph-level output takes the output of old_step, the step replaced,
\* as its source
InsertStep_OldStepAlias(wf, op_step, does_exist) ==
    LET added == add_step(wf, op_step)
        res == IF does_exist THEN resolve_source_refs(added)
               ELSE [err |-> "ok", wf |-> added]
    IN IF res.err # "ok" THEN res
       ELSE IF has_named_outputs(op_step.op)
       THEN [err |-> "NamedOutputs", wf |-> res.wf]
       ELSE [err |-> "ok",
             wf |-> [res.wf EXCEPT !.output[op_step.id] =
                        SourcePort(op_step.id, RETURN_OUTPUT_NAME,
                                   IF does_exist THEN FindNode(wf, op_step.id).uid
                                   ELSE op_step.uid)]]

\* The body of set_resource from the call of add_step on: the step is put
\* into the workflow, source references are resolved again when the name
\* existed, and only then named outputs are refused or the graph-level
\* output is registered.
InsertStep(wf, op_step, does_exist) ==
    LET added == add_step(wf, op_step)
        res == IF does_exist THEN resolve_source_refs(added)
               ELSE [err |-> "ok", wf |-> added]
    IN IF res.err # "ok" THEN res
       ELSE IF has_named_outputs(op_step.op)
       THEN [err |-> "NamedOutputs", wf |-> res.wf]
       ELSE [err |-> "ok",
             wf |-> [res.wf EXCEPT !.output[op_step.id] =
                        SourcePort(op_step.id, RETURN_OUTPUT_NAME, op_step.uid)]]

\* the check of the existing name left out
ExistsRefused_Never(can_exist, does_exist) == FALSE

\* `if not can_exist and does_exist: raise`
ExistsRefused(can_exist, does_exist) == ~can_exist /\ does_exist

\* set_resource without its assertions
AssertionFails_Never(res_name, op_name, op_args) == FALSE
\* assert res_name; assert op_name; assert op_args
AssertionFails(res_name, op_name, op_args) ==
    res_name = "" \/ op_name = "" \/ Len(op_args) = 0

\* Workspace.set_resource(res_name, op_name, op_args, can_exist, validate_args)
\* on a workspace whose workflow is wf; uid is the identity of the OpStep it
\* constructs.  The result is the error raised ("ok" for a normal return)
\* and the workflow as the call leaves it.
set_resource(wf, res_name, op_name, op_args, can_exist, validate_args, uid) ==
    LET namespace == StepNamespace(wf)
        does_exist == res_name \in DOMAIN namespace
        parsed == parse_op_args(op_args, namespace)
        bad == {i \in 1..Len(parsed.kwargs) : BindError(op_name, parsed.kwargs[i]) # "ok"}
    IN IF AssertionFails(res_name, op_name, op_args)
       THEN [err |-> "AssertionError", wf |-> wf]
       ELSE IF op_name \notin OpNames THEN [err |-> "UnknownOperation", wf |-> wf]
       ELSE IF ExistsRefused(can_exist, does_exist)
       THEN [err |-> "ResourceExists", wf |-> wf]
       ELSE IF ~parsed.ok THEN [err |-> "ParseError", wf |-> wf]
       ELSE IF Len(parsed.args) > 0 THEN [err |-> "PositionalArgument", wf |-> wf]
       ELSE IF validate_args /\ ~validate_input_values(op_name, parsed.kwargs)
       THEN [err |-> "ValidationError", wf |-> wf]
       ELSE IF bad # {}
       THEN [err |-> BindError(op_name, parsed.kwargs[SetMin(bad)]), wf |-> wf]
       ELSE InsertStep(wf, BindInputs(OpStep(op_name, res_name, uid), parsed.kwargs),
                       does_exist)

(***************************************************************************)
(* The calls the model makes                                               *)
(***************************************************************************)
\* keys of raw arguments: the declared parameters, an undeclared one, and
\* "" for a positional argument
ArgKeys == {"x", "y", "z", ""}
RawArgs ==
    {RawArg(k, "lit", "") : k \in ArgKeys}
    \cup {RawArg("x", e, "") : e \in {"badlit", "bad"}}
    \cup {RawArg("x", "ref", n) : n \in Names}
    \cup {RawArg("x", "port", NameOrder[1])}
ArgListKeys(l) == {l[i].key : i \in 1..Len(l)}
\* lists of n raw arguments with distinct keys
RECURSIVE ArgLists(_)
ArgLists(n) ==
    IF n = 0 THEN {<<>>}
    ELSE {Append(q[1], q[2]) :
            q \in {r \in ArgLists(n - 1) \X RawArgs : r[2].key \notin ArgListKeys(r[1])}}
\* op_args: the lists of at most MaxArgs raw arguments
OpArgLists == UNION {ArgLists(n) : n \in 0..MaxArgs}

\* The calls of set_resource the model makes: no argument and every single
\* argument with every operation and both settings of the flags, and every
\* longer argument list the way FSWorkspaceManager calls, with validation,
\* for "op1".
SetResourceCalls ==
    {c \in [name : Names, op : CallOpNames, args : OpArgLists,
            can_exist : BOOLEAN, validate : BOOLEAN] :
        Len(c.args) <= 1 \/ (c.op = "op1" /\ c.validate)}

(***************************************************************************)
(* The file system and the Workspace life cycle                            *)
(***************************************************************************)
\* base directories (resolved paths); ManagedDirs are those the
\* specifications work on
Dirs == {"d1", "d2"}
ManagedDirs == {"d1"}
\* header descriptions; create stores '' for no description
Descriptions == {"", "D"}

\* Workflow.to_json_dict: steps and outputs with their values and source
\* references by name; object identities and bindings are not written
UnboundPort(port) ==
    IF port.t = "src" THEN SourcePort(port.node, port.port, 0) ELSE port
to_json_dict(wf) ==
    [header |-> wf.header,
     steps |-> [i \in 1..Len(wf.steps) |->
                  [wf.steps[i] EXCEPT
                     !.uid = 0,
                     !.input = [p \in DOMAIN wf.steps[i].input |->
                                  UnboundPort(wf.steps[i].input[p])]]],
     output |-> [n \in Names |-> UnboundPort(wf.output[n])]]

\* Workflow.from_json_dict: new step objects (identities uid, uid+1, ...),
\* then the source references are resolved
from_json_dict(json, uid) ==
    resolve_source_refs(
        [json EXCEPT !.steps = [i \in 1..Len(json.steps) |->
                                  [json.steps[i] EXCEPT !.uid = uid + i - 1]]])

\* What is on disk for one base directory: the base directory, the
\* workspace data directory in it, the workflow file in that, and the JSON
\* text of the file.
NoJson == to_json_dict(new_workflow(""))
NoFS == [base |-> FALSE, dir |-> FALSE, file |-> FALSE, json |-> NoJson]
\* a cache slot without entry; an entry is a Workspace object, wid its
\* object identity
NoWorkspace == [open |-> FALSE, wf |-> new_workflow(""), wid |-> 0]
Workspace(wf, wid) == [open |-> TRUE, wf |-> wf, wid |-> wid]

\* the I/O call of an operation that fails with an OSError, if any
IOFailures == {"none", "mkdir_base", "mkdir_dir", "write", "read", "remove", "rmtree"}
\* `raise WindowsError(...)`: the name is undefined except on Windows, where
\* it is OSError
WindowsErrorOutcomes == {"NameError", "OSError"}
\* what it raises in a call on a base directory in state f: Workspace.load
\* reaches the statement only where the workspace directory is missing
WindowsErrorAt(f) == IF f.dir THEN {"OSError"} ELSE WindowsErrorOutcomes

\* Workflow.store(file): the file is written in the workspace directory
workflow_store(f, wf, io) ==
    IF ~f.dir \/ io = "write" THEN [err |-> "IOError", f |-> f]
    ELSE [err |-> "ok", f |-> [f EXCEPT !.file = TRUE, !.json = to_json_dict(wf)]]

\* Workspace.create(base_dir, description): the error, the disk and the
\* workflow of the Workspace returned
create(f, description, io) ==
    LET f1 == IF f.base THEN f ELSE [f EXCEPT !.base = TRUE]
        f2 == IF f1.dir THEN f1 ELSE [f1 EXCEPT !.dir = TRUE]
        wf == new_workflow(description)
        st == workflow_store(f2, wf, io)
    IN IF ~f.base /\ io = "mkdir_base" THEN [err |-> "WorkspaceError:IOError", f |-> f, wf |-> wf]
       ELSE IF ~f1.dir /\ io = "mkdir_dir"
       THEN [err |-> "WorkspaceError:IOError", f |-> f1, wf |-> wf]
       ELSE IF f1.dir /\ f1.file THEN [err |-> "WorkspaceError:exists", f |-> f1, wf |-> wf]
       ELSE IF st.err # "ok" THEN [err |-> "WorkspaceError:IOError", f |-> st.f, wf |-> wf]
       ELSE [err |-> "ok", f |-> st.f, wf |-> wf]

\* Workspace.load(base_dir): the error and the workflow of the Workspace
\* returned; raw is what `raise WindowsError` raises
load(f, io, raw, uid) ==
    LET r == from_json_dict(f.json, uid)
    IN IF ~f.dir THEN [err |-> raw, wf |-> new_workflow("")]
       ELSE IF ~f.file \/ io = "read"
       THEN [err |-> "WorkspaceError:IOError", wf |-> new_workflow("")]
       ELSE r

\* store() that reports success and leaves the file as it is
store_KeepsOldFile(f, wf, io) ==
    IF ~f.dir \/ io = "write" THEN [err |-> "WorkspaceError:IOError", f |-> f]
    ELSE [err |-> "ok", f |-> f]

\* Workspace.store()
store(f, wf, io) ==
    LET st == workflow_store(f, wf, io)
    IN IF st.err # "ok" THEN [err |-> "WorkspaceError:IOError", f |-> f] ELSE st

\* Workspace.to_json_dict() of the Workspace object with base_dir and wf
Workspace_to_json_dict(base_dir, wf) ==
    [base_dir |-> base_dir, workflow |-> to_json_dict(wf)]

\* Workspace.from_json_dict(json_dict): the error, and base_dir and workflow
\* of the Workspace object returned
Workspace_from_json_dict(json_dict, uid) ==
    LET r == from_json_dict(json_dict.workflow, uid)
    IN [err |-> r.err, base_dir |-> json_dict.base_dir, wf |-> r.wf]

\* shutil.rmtree(workspace_dir) under try/except, as in Workspace.delete and
\* delete_workspace; a failing rmtree may have removed the file already
rmtree(f, io, partial) ==
    IF ~f.dir THEN [err |-> "WorkspaceError:IOError", f |-> f]
    ELSE IF io = "rmtree"
    THEN [err |-> "WorkspaceError:IOError",
          f |-> IF partial THEN [f EXCEPT !.file = FALSE, !.json = NoJson] ELSE f]
    ELSE [err |-> "ok", f |-> [f EXCEPT !.dir = FALSE, !.file = FALSE, !.json = NoJson]]

\* the exceptions that are WorkspaceError
WorkspaceErrors ==
    {"WorkspaceError:IOError", "WorkspaceError:exists", "WorkspaceError:not a workspace",
     "UnknownOperation", "ResourceExists", "ParseError", "PositionalArgument",
     "UnknownParameter", "IllegalValue", "NamedOutputs", "WorkspaceError:cannot plot",
     "WorkspaceError:remote"}

(***************************************************************************)
(* FSWorkspaceManager                                                      *)
(***************************************************************************)
\* A directory path: absolute or relative, and its components
Path(abs, parts) == [abs |-> abs, parts |-> parts]
NoPath == Path(FALSE, <<>>)
\* self._resolve_dir, an absolute normalised path
resolve_dir == <<"r">>

\* os.path.normpath on the components: '.' is dropped, 'x/..' collapses
RECURSIVE normpath(_)
normpath(parts) ==
    IF parts = <<>> THEN <<>>
    ELSE LET front == normpath(SubSeq(parts, 1, Len(parts) - 1))
             c == parts[Len(parts)]
         IN IF c = "." THEN front
            ELSE IF c = ".." THEN (IF front = <<>> THEN <<>>
                                   ELSE SubSeq(front, 1, Len(front) - 1))
            ELSE Append(front, c)

\* FSWorkspaceManager.resolve_path: the components of the absolute
\* normalised path
resolve_path(dir_path) ==
    IF dir_path.parts # <<>> /\ dir_path.abs THEN normpath(dir_path.parts)
    ELSE normpath(resolve_dir \o dir_path.parts)

\* the resolved path of base directory d, and the ways callers spell it
BaseDir(d) == resolve_dir \o <<d>>
Relative(d) == Path(FALSE, <<d>>)
Spellings(d) == {Relative(d), Path(TRUE, resolve_dir \o <<"x", "..", d>>)}
\* the base directory a resolved path names: the key of the cache
CacheKey(resolved) == CHOOSE d \in Dirs : BaseDir(d) = resolved

\* Each operation is given the disk state f of the resolved base directory
\* and the cache slot c of that directory, and yields the error raised ("ok"
\* for a normal return), the two as the call leaves them, and the number of
\* step objects it has put into the cached workflow.  wid is the identity of
\* the Workspace object the operation constructs for the cache, if it does.
Outcome(err, f, c, used) == [err |-> err, f |-> f, c |-> c, used |-> used]

\* get_workspace that loads the workspace whether it is cached or not
get_workspace_AlwaysLoads(f, c, io, raw, uid, wid) ==
    LET r == load(f, io, raw, uid)
    IN IF r.err # "ok" THEN Outcome(r.err, f, c, 0)
       ELSE Outcome("ok", f, Workspace(r.wf, wid), Len(r.wf.steps))

get_workspace(f, c, io, raw, uid, wid) ==
    LET r == load(f, io, raw, uid)
    IN IF c.open THEN Outcome("ok", f, c, 0)
       ELSE IF r.err # "ok" THEN Outcome(r.err, f, c, 0)
       ELSE Outcome("ok", f, Workspace(r.wf, wid), Len(r.wf.steps))

init_workspace(f, c, description, io, wid) ==
    LET r == create(f, description, io)
    IN IF f.dir THEN Outcome("WorkspaceError:exists", f, c, 0)
       ELSE IF r.err # "ok" THEN Outcome(r.err, r.f, c, 0)
       ELSE IF c.open THEN Outcome("AssertionError", r.f, c, 0)
       ELSE Outcome("ok", r.f, Workspace(r.wf, wid), 0)

\* clean_workspace that leaves a cached Workspace object in the cache
clean_workspace_KeepsCached(f, c, io, raw, uid, wid) ==
    LET r == load(f, io, raw, uid)
        f1 == IF f.file THEN [f EXCEPT !.file = FALSE, !.json = NoJson] ELSE f
        wf == new_workflow(IF r.err = "ok" THEN r.wf.header ELSE "")
        st == store(f1, wf, io)
    IN IF f.file /\ io = "remove" THEN Outcome("WorkspaceError:IOError", f, c, 0)
       ELSE Outcome(st.err, st.f, IF c.open THEN c ELSE Workspace(wf, wid), 0)

clean_workspace(f, c, io, raw, uid, wid) ==
    LET r == load(f, io, raw, uid)
        f1 == IF f.file THEN [f EXCEPT !.file = FALSE, !.json = NoJson] ELSE f
        wf == new_workflow(IF r.err = "ok" THEN r.wf.header ELSE "")
        st == store(f1, wf, io)
    IN IF f.file /\ io = "remove" THEN Outcome("WorkspaceError:IOError", f, c, 0)
       ELSE Outcome(st.err, st.f, Workspace(wf, wid), 0)

\* delete_workspace that leaves the cache entry
delete_workspace_KeepsCache(f, c, io, partial) ==
    LET r == rmtree(f, io, partial)
    IN IF ~f.dir THEN Outcome("WorkspaceError:not a workspace", f, c, 0)
       ELSE Outcome(r.err, r.f, c, 0)

delete_workspace(f, c, io, partial) ==
    LET r == rmtree(f, io, partial)
    IN IF ~f.dir THEN Outcome("WorkspaceError:not a workspace", f, c, 0)
       ELSE IF r.err # "ok" THEN Outcome(r.err, r.f, c, 0)
       ELSE Outcome("ok", r.f, NoWorkspace, 0)

set_workspace_resource(f, c, res_name, op_name, op_args, io, raw, uid, wid) ==
    LET g == get_workspace(f, c, io, raw, uid, wid)
        r == set_resource(g.c.wf, res_name, op_name, op_args, TRUE, TRUE, uid + g.used)
        used == g.used + (IF \E i \in 1..Len(r.wf.steps) : r.wf.steps[i].uid = uid + g.used
                          THEN 1 ELSE 0)
        st == store(f, r.wf, io)
    IN IF g.err # "ok" THEN g
       ELSE IF r.err # "ok" THEN Outcome(r.err, f, [g.c EXCEPT !.wf = r.wf], used)
       ELSE Outcome(st.err, st.f, [g.c EXCEPT !.wf = r.wf], used)

(***************************************************************************)
(* The calls the model makes                                               *)
(***************************************************************************)
\* The outcome of an operation that executes the workflow: also the steps
\* invoked, the names of the mapping the execution returned, and the object
\* handed to the sink
Executed(g, x, err, obj) ==
    [err |-> err, f |-> g.f, c |-> g.c, used |-> g.used,
     invoked |-> x.invoked, result |-> x.result, obj |-> obj]
NotExecuted(g) ==
    [err |-> g.err, f |-> g.f, c |-> g.c, used |-> g.used,
     invoked |-> <<>>, result |-> {}, obj |-> NoObject]

\* the object taken from the result of the execution for res_name
ResultObject(result, res_name) ==
    IF res_name \in result THEN Value(res_name) ELSE Mapping(result)

\* write_workspace_resource that adds a step for the resource it writes
write_workspace_resource_AddsStep(f, c, res_name, failing, io, raw, uid, wid) ==
    LET g == get_workspace(f, c, io, raw, uid, wid)
        r == set_resource(g.c.wf, res_name, "op1", <<RawArg("x", "lit", "")>>, TRUE, TRUE,
                          uid + g.used)
        x == execute(r.wf, {}, failing)
    IN IF g.err # "ok" THEN NotExecuted(g)
       ELSE IF x.err # "ok" THEN Executed(g, x, x.err, NoObject)
       ELSE Executed([g EXCEPT !.c.wf = r.wf], x, "ok", ResultObject(x.result, res_name))

write_workspace_resource(f, c, res_name, failing, io, raw, uid, wid) ==
    LET g == get_workspace(f, c, io, raw, uid, wid)
        x == execute(g.c.wf, {}, failing)
    IN IF g.err # "ok" THEN NotExecuted(g)
       ELSE IF x.err # "ok" THEN Executed(g, x, x.err, NoObject)
       ELSE Executed(g, x, "ok", ResultObject(x.result, res_name))

\* plottable: the values are of a type that can be plotted (xarray Dataset
\* or DataArray, numpy ndarray); the mapping is of none of them
plot_workspace_resource(f, c, res_name, failing, plottable, io, raw, uid, wid) ==
    LET g == get_workspace(f, c, io, raw, uid, wid)
        x == execute(g.c.wf, {}, failing)
        obj == ResultObject(x.result, res_name)
    IN IF g.err # "ok" THEN NotExecuted(g)
       ELSE IF x.err # "ok" THEN Executed(g, x, x.err, NoObject)
       ELSE IF obj.kind = "value" /\ plottable THEN Executed(g, x, "ok", obj)
       ELSE Executed(g, x, "WorkspaceError:cannot plot", NoObject)

(***************************************************************************)
(* What is on disk at the points where an operation may be interrupted     *)
(***************************************************************************)
\* Workflow.store(file): the file is replaced in one step, it is the old or
\* the new one
StorePoints(f, wf) == {f, workflow_store(f, wf, "none").f}

\* set_workspace_resource: get_workspace and set_resource leave the disk
\* alone, then store()
SetWorkspaceResourcePoints(f, c, res_name, op_name, op_args, raw, uid, wid) ==
    LET g == get_workspace(f, c, "none", raw, uid, wid)
        r == set_resource(g.c.wf, res_name, op_name, op_args, TRUE, TRUE, uid + g.used)
    IN IF g.err = "ok" /\ r.err = "ok" THEN StorePoints(f, r.wf) ELSE {f}

\* the workflow clean_workspace stores: a new one with the old header
CleanedWorkflow(f, raw, uid) ==
    LET r == load(f, "none", raw, uid)
    IN new_workflow(IF r.err = "ok" THEN r.wf.header ELSE "")

\* clean_workspace: load, then os.remove(workflow_file), then store()
CleanWorkspacePoints(f, raw, uid) ==
    LET f1 == IF f.file THEN [f EXCEPT !.file = FALSE, !.json = NoJson] ELSE f
    IN {f, f1} \cup StorePoints(f1, CleanedWorkflow(f, raw, uid))

(***************************************************************************)
(* WebAPIWorkspaceManager                                                  *)
(***************************************************************************)
\* an optional string: None, or the string s
None == [given |-> FALSE, s |-> ""]
Str(s) == [given |-> TRUE, s |-> s]
\* Python's `a or b` on optional strings: None and '' are false
Truthy(o) == o.given /\ o.s # ""
Or(a, b) == IF Truthy(a) THEN a ELSE b

\* What is passed to urlopen: a URL with scheme and host, or a bare path
Url(abs, path) == [abs |-> abs, path |-> path]
\* _url(path_pattern, ...): base_url + the encoded path
_url(path_pattern) == Url(TRUE, path_pattern)

\* the 'error' entry of an envelope: missing, or a dict that may hold a
\* message and a type
NoDetails == [dict |-> FALSE, message |-> None, type |-> None]
Details(message, type) == [dict |-> TRUE, message |-> message, type |-> type]
ErrorDetails ==
    {NoDetails}
    \cup {Details(m, t) : m \in {None, Str(""), Str("boom")}, t \in {None, Str("T")}}

\* the 'content' entry of an envelope: missing, or the JSON of a Workspace
NoContent == [given |-> FALSE, base_dir |-> "", workflow |-> NoJson]
Content(json_dict) ==
    [given |-> TRUE, base_dir |-> json_dict.base_dir, workflow |-> json_dict.workflow]
\* workflows a server answers with: empty with a description, and one step
SampleWorkflows ==
    {new_workflow("D"),
     set_resource(new_workflow(""), NameOrder[1], "op1", <<RawArg("x", "lit", "")>>,
                  FALSE, TRUE, 1).wf}
Contents ==
    {NoContent}
    \cup {Content(Workspace_to_json_dict(d, wf)) : d \in ManagedDirs, wf \in SampleWorkflows}

\* What the server sends: text that is no JSON, or a JSON envelope with a
\* status ("none": no status entry), error details and content
TextBody == [kind |-> "text", status |-> "none", error |-> NoDetails, content |-> NoContent]
Envelope(status, error, content) ==
    [kind |-> "object", status |-> status, error |-> error, content |-> content]
Bodies ==
    {TextBody}
    \cup {Envelope(s, e, c) : s \in {"ok", "error", "none"}, e \in ErrorDetails, c \in Contents}

\* What urlopen does with a URL that has a scheme: it returns the response
\* of the server, or raises because the server sent an HTTP error status,
\* could not be reached, or did not answer within the timeout
NetOutcomes == {"response", "HTTPError", "URLError", "timeout"}
TransportFailures == NetOutcomes \ {"response"}

\* what a call of _fetch_json gives: the error raised ("ok" for a normal
\* return), the message of the error, and the content returned
Fetched(err, msg, content) == [err |-> err, msg |-> msg, content |-> content]

\* _fetch_json that takes the message only, and no type name in its place
_fetch_json_MessageOnly(url, net, body) ==
    IF ~url.abs THEN Fetched("ValueError", None, NoContent)
    ELSE IF net # "response" THEN Fetched(net, None, NoContent)
    ELSE IF body.kind # "object" THEN Fetched("ValueError", None, NoContent)
    ELSE IF body.status = "error"
    THEN Fetched("WorkspaceError:remote", body.error.message, NoContent)
    ELSE Fetched("ok", None, body.content)

\* _fetch_json(url, data, error_type=WorkspaceError, timeout): urlopen, then
\* json.loads, then the envelope is taken apart
_fetch_json(url, net, body) ==
    IF ~url.abs THEN Fetched("ValueError", None, NoContent)
    ELSE IF net # "response" THEN Fetched(net, None, NoContent)
    ELSE IF body.kind # "object" THEN Fetched("ValueError", None, NoContent)
    ELSE IF body.status = "error"
    THEN Fetched("WorkspaceError:remote", Or(body.error.message, body.error.type), NoContent)
    ELSE Fetched("ok", None, body.content)

\* is_running(timeout): _fetch_json('/') under try, True for a normal
\* return and for WorkspaceError, False for every other exception
is_running(net, body) ==
    _fetch_json(Url(FALSE, "/"), net, body).err \in {"ok", "WorkspaceError:remote"}

\* what a remote manager method gives: the error raised, its message, the
\* content _fetch_json returned and the Workspace object returned
NoRemoteWorkspace == [given |-> FALSE, base_dir |-> "", wf |-> new_workflow("")]
RemoteOutcome(r, err, ret) ==
    [err |-> err, msg |-> r.msg, content |-> r.content, ret |-> ret]
\* a method that returns nothing
FetchOnly(path_pattern, net, body) ==
    LET r == _fetch_json(_url(path_pattern), net, body)
    IN RemoteOutcome(r, r.err, NoRemoteWorkspace)
\* a method that returns Workspace.from_json_dict(json_dict); json_dict.get
\* fails on None
FetchWorkspace(path_pattern, net, body, uid) ==
    LET r == _fetch_json(_url(path_pattern), net, body)
        w == Workspace_from_json_dict(r.content, uid)
    IN IF r.err # "ok" THEN RemoteOutcome(r, r.err, NoRemoteWorkspace)
       ELSE IF ~r.content.given THEN RemoteOutcome(r, "AttributeError", NoRemoteWorkspace)
       ELSE RemoteOutcome(r, w.err,
                          IF w.err = "ok"
                          THEN [given |-> TRUE, base_dir |-> w.base_dir, wf |-> w.wf]
                          ELSE NoRemoteWorkspace)

\* the methods of WebAPIWorkspaceManager and their URL paths
RemotePaths ==
    [get_workspace |-> "/ws/get/{base_dir}",
     init_workspace |-> "/ws/init",
     delete_workspace |-> "/ws/del/{base_dir}",
     clean_workspace |-> "/ws/clean/{base_dir}",
     set_workspace_resource |-> "/ws/res/set/{base_dir}/{res_name}",
     write_workspace_resource |-> "/ws/res/write/{base_dir}/{res_name}",
     plot_workspace_resource |-> "/ws/res/plot/{base_dir}/{res_name}"]
RemoteMethods == DOMAIN RemotePaths
\* the method of the remote manager, given what the network and the server do
remote(method, net, body, uid) ==
    IF method \in {"get_workspace", "init_workspace"}
    THEN FetchWorkspace(RemotePaths[method], net, body, uid)
    ELSE FetchOnly(RemotePaths[method], net, body)

\* urllib.parse.urlencode of one form value: str(value)
urlencode(o) == IF o.given THEN o.s ELSE "None"
\* `description or ''`
OrEmpty(o) == IF Truthy(o) THEN o.s ELSE ""
\* optional arguments as callers pass them, and the variables of the
\* Dataset computed for a resource
Optionals == {None, Str("None"), Str("v")}
DataVars == {"v"}

\* The service behind the remote manager: it applies each request to a
\* manager of its own and answers with an envelope.  A form field is taken
\* as the string that was sent, or the string "None" for a missing value.
FormDecodings == {"as sent", "None is missing"}
form_field(s, decoding) ==
    IF decoding = "None is missing" /\ s = "None" THEN None ELSE Str(s)
\* an optional argument of the caller as the manager of the service gets it
Received(o, decoding) == form_field(urlencode(o), decoding)
\* the envelope after the manager of the service raised err ("ok": returned)
ServiceEnvelope(err, content) ==
    IF err = "ok" THEN Envelope("ok", NoDetails, content)
    ELSE Envelope("error", Details(Str(err), Str(err)), NoContent)

\* plot_workspace_resource where the object is an xarray Dataset with the
\* variables DataVars: `ds.data_vars[var_name]` for a var_name given
plot_variable(r, var_name) ==
    IF r.err = "ok" /\ Truthy(var_name) /\ var_name.s \notin DataVars
    THEN [r EXCEPT !.err = "KeyError", !.obj = NoObject]
    ELSE r

\* what the writer or plotter is called with
NoSink == [obj |-> NoObject, path |-> None, hint |-> None]
Sink(r, path, hint) ==
    IF r.err = "ok" THEN [obj |-> r.obj, path |-> path, hint |-> hint] ELSE NoSink

\* an HTTP exchange: what the network does and, if the server answers, what
\* it sends
Exchange(net, body) == [net |-> net, body |-> body]
Exchanges ==
    {Exchange("response", b) : b \in Bodies}
    \cup {Exchange(n, TextBody) : n \in TransportFailures}

\* the part of the record of a call that a call of the remote manager fills
NoWeb == [method |-> "", net |-> "response", body |-> TextBody, msg |-> None,
          content |-> NoContent, ret |-> NoRemoteWorkspace, running |-> FALSE]

\* the part of the record of a call made on a local manager and, with the
\* same arguments, on a remote manager whose service is in the same state:
\* the errors raised, what is on disk and in the cache of the local manager
\* and of the service, what the sinks were called with, what the remote
\* manager returned
NoBoth == [method |-> "", decoding |-> "", lerr |-> "ok", rerr |-> "ok",
           lf |-> NoFS, sf |-> NoFS, lc |-> NoWorkspace, sc |-> NoWorkspace,
           lsink |-> NoSink, ssink |-> NoSink, ret |-> NoRemoteWorkspace,
           optional |-> {}]

\* nothing seen of a base directory yet
NoHistory == [by |-> "", wid |-> 0, path |-> NoPath, deleted |-> ""]

\* The record of the last call: the call, its arguments, the error it raised
\* ("ok" for a normal return) and what it found: the workflow of the
\* Workspace object (pre), the disk (prefs) and the cache slot (precache).
\* The caller takes the outcome (Return) before the next call is made.
NoCall == [call |-> "", dir |-> "", name |-> "", op |-> "", args |-> <<>>,
           can_exist |-> FALSE, validate |-> FALSE, description |-> "",
           path |-> NoPath, io |-> "none", err |-> "ok", pre |-> new_workflow(""), prefs |-> NoFS,
           precache |-> NoWorkspace, prehistory |-> NoHistory, ret |-> NoWorkspace,
           new |-> NoJson, failing |-> {}, invoked |-> <<>>, result |-> {},
           obj |-> NoObject, web |-> NoWeb, both |-> NoBoth]

\* no call is under way, and a step object is left to construct
Idle == last.call = "" /\ nextUid <= MaxUid

\* the Workspace object of a call stays in the cache: its identity is used up
WidAfter(c, wid) == IF c.open /\ c.wid = wid THEN wid + 1 ELSE wid

\* What the callers of the manager have seen of base directory d after a
\* call that raised err and left the cache slot c:
\*   by, wid : the last of get_workspace, init_workspace and clean_workspace
\*             that succeeded, and the Workspace object it returned or
\*             cached, with no call of delete, clean or init since;
\*   path    : the spelling of the directory in that call of get_workspace;
\*   deleted : the delete that succeeded, with no call of init_workspace and
\*             no successful Workspace.create since.
Tracked(h, call, path, err, c) ==
    LET by == IF call \in {"get_workspace", "init_workspace", "clean_workspace"} /\ err = "ok"
              THEN call
              ELSE IF call \in {"init_workspace", "clean_workspace", "delete_workspace",
                                "Workspace.delete"}
              THEN ""
              ELSE h.by
    IN [by |-> by,
        wid |-> IF by = "" THEN 0 ELSE c.wid,
        path |-> IF by # "get_workspace" THEN NoPath
                 ELSE IF call = "get_workspace" THEN path ELSE h.path,
        deleted |-> IF call \in {"delete_workspace", "Workspace.delete"} /\ err = "ok"
                    THEN call
                    ELSE IF call = "init_workspace" \/ (call = "Workspace.create" /\ err = "ok")
                    THEN ""
                    ELSE h.deleted]

\* the step object of a call stays in the workflow: its identity is used up
UidAfter(wf, uid) ==
    IF \E i \in 1..Len(wf.steps) : wf.steps[i].uid = uid THEN uid + 1 ELSE uid

\* workspace.set_resource(...) on the Workspace object
SetResource(res_name, op_name, op_args, can_exist, validate_args) ==
    LET r == set_resource(workflow, res_name, op_name, op_args, can_exist,
                          validate_args, nextUid)
    IN /\ workflow' = r.wf
       /\ nextUid' = UidAfter(r.wf, nextUid)
       /\ last' = [NoCall EXCEPT !.call = "set_resource", !.name = res_name,
                                 !.op = op_name, !.args = op_args,
                                 !.can_exist = can_exist, !.validate = validate_args,
                                 !.err = r.err, !.pre = workflow]
       /\ UNCHANGED <<fs, cache, nextWid, history, calls, registry, datasets>>

\* the caller has the outcome of its call
Return ==
    /\ last.call # ""
    /\ last' = NoCall
    /\ UNCHANGED <<workflow, nextUid, fs, cache, nextWid, history, calls, registry, datasets>>

\* a call on base directory d, spelled path, with the I/O failure io, ends
\* with outcome r
CallRecord(call, d, path, io, description, r) ==
    [NoCall EXCEPT !.call = call, !.dir = d, !.path = path, !.io = io,
                   !.description = description, !.err = r.err,
                   !.prefs = fs[d], !.precache = cache[d],
                   !.prehistory = history[d],
                   !.ret = IF call \in {"get_workspace", "init_workspace"}
                              /\ r.err = "ok"
                           THEN r.c ELSE NoWorkspace]
\* what a call on d that ends with outcome r leaves, but for its record
Leaves(call, d, path, r) ==
    /\ fs' = [fs EXCEPT ![d] = r.f]
    /\ cache' = [cache EXCEPT ![d] = r.c]
    /\ nextUid' = nextUid + r.used
    /\ nextWid' = WidAfter(r.c, nextWid)
    /\ nextWid' <= MaxWid + 1
    /\ history' = [history EXCEPT ![d] = Tracked(history[d], call, path, r.err, r.c)]
    /\ UNCHANGED <<workflow, calls, registry, datasets>>
EndsAt(call, d, path, io, description, r) ==
    /\ Leaves(call, d, path, r)
    /\ last' = CallRecord(call, d, path, io, description, r)
\* a call that executes the workflow for res_name ends with outcome r
EndsExecution(call, d, res_name, failing, io, r) ==
    /\ Leaves(call, d, NoPath, r)
    /\ last' = [CallRecord(call, d, NoPath, io, "", r) EXCEPT
                  !.name = res_name, !.failing = failing, !.invoked = r.invoked,
                  !.result = r.result, !.obj = r.obj]
EndsWith(call, d, io, description, r) == EndsAt(call, d, NoPath, io, description, r)
Ends(call, d, io, r) == EndsWith(call, d, io, "", r)

\* Workspace.create(d, description); the caller drops the object returned
WsCreate(d, description, io) ==
    LET r == create(fs[d], description, io)
    IN /\ fs' = [fs EXCEPT ![d] = r.f]
       /\ last' = [NoCall EXCEPT !.call = "Workspace.create", !.dir = d,
                                 !.description = description, !.io = io, !.err = r.err,
                                 !.prefs = fs[d], !.precache = cache[d],
                                 !.prehistory = history[d]]
       /\ history' = [history EXCEPT
                         ![d] = Tracked(history[d], "Workspace.create", NoPath, r.err,
                                        cache[d])]
       /\ UNCHANGED <<workflow, nextUid, cache, nextWid, calls, registry, datasets>>

\* Workspace.load(d); the caller drops the object returned
WsLoad(d, io, raw) ==
    LET r == load(fs[d], io, raw, nextUid)
    IN /\ last' = [NoCall EXCEPT !.call = "Workspace.load", !.dir = d, !.io = io,
                                 !.err = r.err,
                                 !.prefs = fs[d], !.precache = cache[d],
                                 !.prehistory = history[d]]
       /\ UNCHANGED <<workflow, nextUid, fs, cache, nextWid, history, calls, registry, datasets>>

\* store() on the Workspace object the manager has cached for d
WsStore(d, io) ==
    /\ cache[d].open
    /\ Ends("Workspace.store", d, io,
            LET st == store(fs[d], cache[d].wf, io)
            IN Outcome(st.err, st.f, cache[d], 0))

\* delete() on a Workspace object of base directory d
WsDelete(d, io, partial) ==
    Ends("Workspace.delete", d, io,
         LET r == rmtree(fs[d], io, partial) IN Outcome(r.err, r.f, cache[d], 0))

\* The manager operations are called with a spelling base_dir of the
\* directory and work on the directory it resolves to.
GetWorkspace(base_dir, io, raw) ==
    LET d == CacheKey(resolve_path(base_dir))
    IN EndsAt("get_workspace", d, base_dir, io, "",
              get_workspace(fs[d], cache[d], io, raw, nextUid, nextWid))

InitWorkspace(base_dir, description, io) ==
    LET d == CacheKey(resolve_path(base_dir))
    IN EndsWith("init_workspace", d, io, description,
                init_workspace(fs[d], cache[d], description, io, nextWid))

CleanWorkspace(base_dir, io, raw) ==
    LET d == CacheKey(resolve_path(base_dir))
    IN Ends("clean_workspace", d, io,
            clean_workspace(fs[d], cache[d], io, raw, nextUid, nextWid))

DeleteWorkspace(base_dir, io, partial) ==
    LET d == CacheKey(resolve_path(base_dir))
    IN Ends("delete_workspace", d, io, delete_workspace(fs[d], cache[d], io, partial))

SetWorkspaceResource(base_dir, res_name, op_name, op_args, io, raw) ==
    LET d == CacheKey(resolve_path(base_dir))
    IN Ends("set_workspace_resource", d, io,
            set_workspace_resource(fs[d], cache[d], res_name, op_name, op_args, io, raw,
                                   nextUid, nextWid))

\* write_workspace_resource and plot_workspace_resource, on a workspace
\* whose workflow can be executed
WriteWorkspaceResource(base_dir, res_name, failing, io, raw) ==
    LET d == CacheKey(resolve_path(base_dir))
        g == get_workspace(fs[d], cache[d], io, raw, nextUid, nextWid)
    IN /\ g.err = "ok" => Executable(g.c.wf)
       /\ EndsExecution("write_workspace_resource", d, res_name, failing, io,
                        write_workspace_resource(fs[d], cache[d], res_name, failing, io,
                                                 raw, nextUid, nextWid))

PlotWorkspaceResource(base_dir, res_name, failing, plottable, io, raw) ==
    LET d == CacheKey(resolve_path(base_dir))
        g == get_workspace(fs[d], cache[d], io, raw, nextUid, nextWid)
    IN /\ g.err = "ok" => Executable(g.c.wf)
       /\ EndsExecution("plot_workspace_resource", d, res_name, failing, io,
                        plot_workspace_resource(fs[d], cache[d], res_name, failing,
                                                plottable, io, raw, nextUid, nextWid))

\* the sets of steps whose operations fail in an execution
FailingSets == {{}} \cup {{n} : n \in Names}

\* The process is killed in a call on base directory d that rewrites the
\* workflow file of an existing workspace, with f on disk; new is what the
\* call was to write.  The manager and its cache are gone; the next calls are
\* those of a new process.
Crash(call, d, f, new) ==
    /\ fs[d].dir /\ fs[d].file
    /\ fs' = [fs EXCEPT ![d] = f]
    /\ cache' = [e \in Dirs |-> NoWorkspace]
    /\ history' = [e \in Dirs |-> NoHistory]
    /\ last' = [NoCall EXCEPT !.call = call, !.dir = d, !.prefs = fs[d],
                              !.precache = cache[d], !.prehistory = history[d],
                              !.new = to_json_dict(new)]
    /\ UNCHANGED <<workflow, nextUid, nextWid, calls, registry, datasets>>

CrashInStore(d) ==
    /\ cache[d].open
    /\ \E f \in StorePoints(fs[d], cache[d].wf) :
          Crash("crash in Workspace.store", d, f, cache[d].wf)

CrashInSetWorkspaceResource(base_dir, res_name, op_name, op_args, raw) ==
    LET d == CacheKey(resolve_path(base_dir))
        r == set_workspace_resource(fs[d], cache[d], res_name, op_name, op_args, "none",
                                    raw, nextUid, nextWid)
    IN \E f \in SetWorkspaceResourcePoints(fs[d], cache[d], res_name, op_name, op_args,
                                           raw, nextUid, nextWid) :
          Crash("crash in set_workspace_resource", d, f, r.c.wf)

CrashInCleanWorkspace(base_dir, raw) ==
    LET d == CacheKey(resolve_path(base_dir))
    IN \E f \in CleanWorkspacePoints(fs[d], raw, nextUid) :
          Crash("crash in clean_workspace", d, f, CleanedWorkflow(fs[d], raw, nextUid))

\* Workspace.create(d, description) where no workspace is yet; the caller
\* keeps the Workspace object: it is the one set_resource is called on
CreateWorkspace(d, description) ==
    LET r == create(fs[d], description, "none")
    IN /\ \A e \in Dirs : ~fs[e].dir
       /\ r.err = "ok"
       /\ fs' = [fs EXCEPT ![d] = r.f]
       /\ workflow' = r.wf
       /\ last' = [NoCall EXCEPT !.call = "Workspace.create", !.dir = d,
                                 !.description = description, !.prefs = fs[d]]
       /\ UNCHANGED <<nextUid, cache, nextWid, history, calls, registry, datasets>>

\* store() on that Workspace object, then Workspace.load of its base
\* directory d; the caller compares what it gets with what it has
StoreThenLoad(d, raw) ==
    LET st == store(fs[d], workflow, "none")
        ld == load(st.f, "none", raw, nextUid)
    IN /\ fs[d].dir
       /\ fs' = [fs EXCEPT ![d] = st.f]
       /\ last' = [NoCall EXCEPT !.call = "store+load", !.dir = d,
                                 !.err = IF st.err # "ok" THEN st.err ELSE ld.err,
                                 !.pre = workflow, !.prefs = fs[d],
                                 !.ret = Workspace(ld.wf, nextWid)]
       /\ UNCHANGED <<workflow, nextUid, cache, nextWid, history, calls, registry, datasets>>

\* to_json_dict() on that Workspace object, of base directory d, then
\* Workspace.from_json_dict of the result
JsonThenBack(d) ==
    LET r == Workspace_from_json_dict(Workspace_to_json_dict(d, workflow), nextUid)
    IN /\ fs[d].dir
       /\ last' = [NoCall EXCEPT !.call = "to_json_dict+from_json_dict",
                                 !.dir = r.base_dir, !.err = r.err,
                                 !.pre = workflow, !.prefs = fs[d],
                                 !.ret = Workspace(r.wf, nextWid)]
       /\ UNCHANGED <<workflow, nextUid, fs, cache, nextWid, history, calls, registry, datasets>>

\* a method of WebAPIWorkspaceManager is called and the exchange x takes
\* place
RemoteCall(method, x) ==
    LET r == remote(method, x.net, x.body, nextUid)
    IN /\ last' = [NoCall EXCEPT
                      !.call = "WebAPIWorkspaceManager", !.err = r.err,
                      !.web = [NoWeb EXCEPT !.method = method, !.net = x.net,
                                            !.body = x.body, !.msg = r.msg,
                                            !.content = r.content, !.ret = r.ret]]
       /\ UNCHANGED <<workflow, nextUid, fs, cache, nextWid, history, calls, registry, datasets>>

\* WebAPIWorkspaceManager.is_running() while the network and the server
\* would do x with a request
IsRunning(x) ==
    /\ last' = [NoCall EXCEPT
                   !.call = "is_running",
                   !.web = [NoWeb EXCEPT !.method = "is_running", !.net = x.net,
                                         !.body = x.body,
                                         !.running = is_running(x.net, x.body)]]
    /\ UNCHANGED <<workflow, nextUid, fs, cache, nextWid, history, calls, registry, datasets>>

\* The same call on the local manager, which ends with L, and on the remote
\* manager, whose service ends with S and answers with content; optional
\* are the optional arguments of the call
Both(method, d, decoding, L, S, lsink, ssink, content, optional) ==
    LET R == remote(method, "response", ServiceEnvelope(S.err, content), nextUid + L.used)
    IN /\ Leaves(method, d, NoPath, L)
       /\ last' = [CallRecord("local+remote", d, NoPath, "none", "", L) EXCEPT
                      !.both = [method |-> method, decoding |-> decoding,
                                lerr |-> L.err, rerr |-> R.err,
                                lf |-> L.f, sf |-> S.f, lc |-> L.c, sc |-> S.c,
                                lsink |-> lsink, ssink |-> ssink, ret |-> R.ret,
                                optional |-> optional]]
\* the content a service answers get_workspace and init_workspace with
WorkspaceContent(d, S) ==
    IF S.err = "ok" THEN Content(Workspace_to_json_dict(d, S.c.wf)) ELSE NoContent

BothGetWorkspace(d, decoding, raw) ==
    LET L == get_workspace(fs[d], cache[d], "none", raw, nextUid, nextWid)
    IN Both("get_workspace", d, decoding, L, L, NoSink, NoSink, WorkspaceContent(d, L), {})

BothInitWorkspace(d, decoding, description) ==
    LET L == init_workspace(fs[d], cache[d], OrEmpty(description), "none", nextWid)
        S == init_workspace(fs[d], cache[d],
                            OrEmpty(Received(Str(OrEmpty(description)), decoding)),
                            "none", nextWid)
    IN Both("init_workspace", d, decoding, L, S, NoSink, NoSink, WorkspaceContent(d, S),
            {description})

BothDeleteWorkspace(d, decoding) ==
    LET L == delete_workspace(fs[d], cache[d], "none", FALSE)
    IN Both("delete_workspace", d, decoding, L, L, NoSink, NoSink, NoContent, {})

BothCleanWorkspace(d, decoding, raw) ==
    LET L == clean_workspace(fs[d], cache[d], "none", raw, nextUid, nextWid)
    IN Both("clean_workspace", d, decoding, L, L, NoSink, NoSink, NoContent, {})

BothSetWorkspaceResource(d, decoding, res_name, op_name, op_args, raw) ==
    \E L \in {set_workspace_resource(fs[d], cache[d], res_name, op_name, op_args, "none",
                                     raw, nextUid, nextWid)} :
        Both("set_workspace_resource", d, decoding, L, L, NoSink, NoSink, NoContent, {})

BothWriteWorkspaceResource(d, decoding, res_name, failing, file_path, format_name, raw) ==
    \E g \in {get_workspace(fs[d], cache[d], "none", raw, nextUid, nextWid)} :
        /\ g.err = "ok" => Executable(g.c.wf)
        /\ \E L \in {write_workspace_resource(fs[d], cache[d], res_name, failing, "none",
                                              raw, nextUid, nextWid)} :
              Both("write_workspace_resource", d, decoding, L, L,
                   Sink(L, file_path, format_name),
                   Sink(L, Received(file_path, decoding), Received(format_name, decoding)),
                   NoContent, {format_name})

\* the values plotted are Datasets; the plotter gets the variable name
BothPlotWorkspaceResource(d, decoding, res_name, failing, var_name, file_path, raw) ==
    \E g \in {get_workspace(fs[d], cache[d], "none", raw, nextUid, nextWid)} :
        /\ g.err = "ok" => Executable(g.c.wf)
        /\ \E r \in {plot_workspace_resource(fs[d], cache[d], res_name, failing, TRUE,
                                             "none", raw, nextUid, nextWid)} :
              \E L \in {plot_variable(r, var_name)},
                 S \in {plot_variable(r, Received(var_name, decoding))} :
                  Both("plot_workspace_resource", d, decoding, L, S,
                       Sink(L, None, var_name),
                       Sink(S, None, Received(var_name, decoding)),
                       NoContent, {var_name, file_path})

(***************************************************************************)
(* FSWorkspaceManager, statement by statement: calls on different base     *)
(* directories under way at the same time                                  *)
(***************************************************************************)
\* the dict _workspace_cache: get(key, None), [key] = workspace, del [key]
cache_get(c, key) == c[key]
cache_put(c, key, workspace) == [c EXCEPT ![key] = workspace]
\* del that empties the cache
cache_del_Clear(c, key) == [k \in DOMAIN c |-> NoWorkspace]
cache_del(c, key) == [c EXCEPT ![key] = NoWorkspace]

\* the identity of the next step object put into wf
FreshUid(wf) ==
    IF wf.steps = <<>> THEN 1
    ELSE 1 + (CHOOSE m \in StepUids(wf) : \A u \in StepUids(wf) : u <= m)

\* A call under way: the method, its arguments, the statement it is at (pc),
\* its local variable `workspace`, the error it raised, and what it found on
\* disk and in the cache when it began (f0, c0)
NoCallUnderWay ==
    [pc |-> "idle", method |-> "", base_dir |-> NoPath, description |-> "",
     name |-> "", op |-> "", args |-> <<>>, raw |-> "OSError",
     f0 |-> NoFS, c0 |-> NoWorkspace, workspace |-> NoWorkspace, err |-> "ok"]
\* the first statement of each method
FirstPc ==
    [get_workspace |-> "lookup", set_workspace_resource |-> "lookup",
     init_workspace |-> "init_isdir", delete_workspace |-> "delete_isdir",
     clean_workspace |-> "clean_load"]
\* base_dir = self.resolve_path(base_dir)
Key(d) == CacheKey(resolve_path(calls[d].base_dir))

Goto(d, pc) == calls' = [calls EXCEPT ![d].pc = pc]
GotoWith(d, pc, workspace) ==
    calls' = [calls EXCEPT ![d].pc = pc, ![d].workspace = workspace]
Finish(d, err) == calls' = [calls EXCEPT ![d].pc = "done", ![d].err = err]
At(d, pc) == calls[d].pc = pc
Untouched == UNCHANGED <<workflow, nextUid, last, nextWid, history, registry, datasets>>

\* a method is called on the base directory d, spelled base_dir
Begin(d, method, base_dir, description, c, raw) ==
    /\ At(d, "idle")
    /\ calls' = [calls EXCEPT ![d] =
                    [NoCallUnderWay EXCEPT
                        !.pc = FirstPc[method], !.method = method, !.base_dir = base_dir,
                        !.description = description, !.name = c.name, !.op = c.op,
                        !.args = c.args, !.raw = raw, !.f0 = fs[d], !.c0 = cache[d]]]
    /\ UNCHANGED <<fs, cache>> /\ Untouched

\* get_workspace: workspace = self._workspace_cache.get(base_dir, None)
Lookup(d) ==
    /\ At(d, "lookup")
    /\ IF cache_get(cache, Key(d)).open
       THEN IF calls[d].method = "get_workspace" THEN Finish(d, "ok")
            ELSE Goto(d, "set_resource")
       ELSE Goto(d, "load")
    /\ UNCHANGED <<fs, cache>> /\ Untouched

\* get_workspace: workspace = Workspace.load(base_dir)
Load(d) ==
    LET r == load(fs[Key(d)], "none", calls[d].raw, 1)
    IN /\ At(d, "load")
       /\ IF r.err # "ok" THEN Finish(d, r.err)
          ELSE GotoWith(d, "put", Workspace(r.wf, 0))
       /\ UNCHANGED <<fs, cache>> /\ Untouched

\* get_workspace, init_workspace: assert base_dir not in the cache, then
\* self._workspace_cache[base_dir] = workspace
Put(d) ==
    /\ At(d, "put")
    /\ IF cache_get(cache, Key(d)).open
       THEN Finish(d, "AssertionError") /\ UNCHANGED cache
       ELSE /\ cache' = cache_put(cache, Key(d), calls[d].workspace)
            /\ IF calls[d].method = "set_workspace_resource" THEN Goto(d, "set_resource")
               ELSE Finish(d, "ok")
    /\ UNCHANGED fs /\ Untouched

\* set_workspace_resource: workspace.set_resource(...) on the cached object
SetResourceStep(d) ==
    LET ws == cache_get(cache, Key(d))
        r == set_resource(ws.wf, calls[d].name, calls[d].op, calls[d].args, TRUE, TRUE,
                          FreshUid(ws.wf))
    IN /\ At(d, "set_resource")
       /\ cache' = cache_put(cache, Key(d), [ws EXCEPT !.wf = r.wf])
       /\ IF r.err # "ok" THEN Finish(d, r.err) ELSE Goto(d, "store")
       /\ UNCHANGED fs /\ Untouched

\* set_workspace_resource: workspace.store()
StoreStep(d) ==
    LET st == store(fs[Key(d)], cache_get(cache, Key(d)).wf, "none")
    IN /\ At(d, "store")
       /\ fs' = [fs EXCEPT ![Key(d)] = st.f]
       /\ Finish(d, st.err)
       /\ UNCHANGED cache /\ Untouched

\* init_workspace: if os.path.isdir(workspace_dir): raise
InitIsDir(d) ==
    /\ At(d, "init_isdir")
    /\ IF fs[Key(d)].dir THEN Finish(d, "WorkspaceError:exists") ELSE Goto(d, "create")
    /\ UNCHANGED <<fs, cache>> /\ Untouched

\* init_workspace: workspace = Workspace.create(base_dir, description)
Create(d) ==
    LET r == create(fs[Key(d)], calls[d].description, "none")
    IN /\ At(d, "create")
       /\ fs' = [fs EXCEPT ![Key(d)] = r.f]
       /\ IF r.err # "ok" THEN Finish(d, r.err)
          ELSE GotoWith(d, "put", Workspace(r.wf, 0))
       /\ UNCHANGED cache /\ Untouched

\* delete_workspace: if not os.path.isdir(workspace_dir): raise
DeleteIsDir(d) ==
    /\ At(d, "delete_isdir")
    /\ IF ~fs[Key(d)].dir THEN Finish(d, "WorkspaceError:not a workspace")
       ELSE Goto(d, "rmtree")
    /\ UNCHANGED <<fs, cache>> /\ Untouched

\* delete_workspace: shutil.rmtree(workspace_dir)
Rmtree(d) ==
    LET r == rmtree(fs[Key(d)], "none", FALSE)
    IN /\ At(d, "rmtree")
       /\ fs' = [fs EXCEPT ![Key(d)] = r.f]
       /\ IF r.err # "ok" THEN Finish(d, r.err) ELSE Goto(d, "del")
       /\ UNCHANGED cache /\ Untouched

\* delete_workspace: if base_dir in the cache: del the entry
Del(d) ==
    /\ At(d, "del")
    /\ cache' = IF cache_get(cache, Key(d)).open THEN cache_del(cache, Key(d)) ELSE cache
    /\ Finish(d, "ok")
    /\ UNCHANGED fs /\ Untouched

\* clean_workspace: workspace = Workspace.load(base_dir), None if it raises
CleanLoad(d) ==
    LET r == load(fs[Key(d)], "none", calls[d].raw, 1)
    IN /\ At(d, "clean_load")
       /\ GotoWith(d, "remove", IF r.err = "ok" THEN Workspace(r.wf, 0) ELSE NoWorkspace)
       /\ UNCHANGED <<fs, cache>> /\ Untouched

\* clean_workspace: os.remove(workflow_file) if it is a file
Remove(d) ==
    /\ At(d, "remove")
    /\ fs' = IF fs[Key(d)].file
             THEN [fs EXCEPT ![Key(d)].file = FALSE, ![Key(d)].json = NoJson]
             ELSE fs
    /\ Goto(d, "clean_put")
    /\ UNCHANGED cache /\ Untouched

\* clean_workspace: a Workspace with a new workflow that keeps the old
\* header is put into the cache
CleanPut(d) ==
    LET old == calls[d].workspace
        new == Workspace(new_workflow(IF old.open THEN old.wf.header ELSE ""), 0)
    IN /\ At(d, "clean_put")
       /\ cache' = cache_put(cache, Key(d), new)
       /\ GotoWith(d, "clean_store", new)
       /\ UNCHANGED fs /\ Untouched

\* clean_workspace: workspace.store()
CleanStore(d) ==
    LET st == store(fs[Key(d)], calls[d].workspace.wf, "none")
    IN /\ At(d, "clean_store")
       /\ fs' = [fs EXCEPT ![Key(d)] = st.f]
       /\ Finish(d, st.err)
       /\ UNCHANGED cache /\ Untouched

\* the caller on d has the outcome of its call
ReturnCall(d) ==
    /\ At(d, "done")
    /\ calls' = [calls EXCEPT ![d] = NoCallUnderWay]
    /\ UNCHANGED <<fs, cache>> /\ Untouched

\* one statement of the call under way on d
Step(d) ==
    \/ Lookup(d) \/ Load(d) \/ Put(d) \/ SetResourceStep(d) \/ StoreStep(d)
    \/ InitIsDir(d) \/ Create(d)
    \/ DeleteIsDir(d) \/ Rmtree(d) \/ Del(d)
    \/ CleanLoad(d) \/ Remove(d) \/ CleanPut(d) \/ CleanStore(d)

(***************************************************************************)
(* get_workspace, statement by statement, called by two callers at once    *)
(***************************************************************************)
\* the callers, and the identity of the Workspace object each one's
\* Workspace.load constructs
Callers == Dirs
InstanceOf(t) == IF t = "d1" THEN 1 ELSE 2
GetUntouched == UNCHANGED <<workflow, nextUid, last, fs, nextWid, history, registry, datasets>>

\* caller t calls get_workspace(base_dir)
BeginGet(t, base_dir, raw) ==
    LET d == CacheKey(resolve_path(base_dir))
    IN /\ At(t, "idle")
       /\ calls' = [calls EXCEPT ![t] =
                       [NoCallUnderWay EXCEPT
                           !.pc = "lookup", !.method = "get_workspace",
                           !.base_dir = base_dir, !.raw = raw,
                           !.f0 = fs[d], !.c0 = cache[d]]]
       /\ UNCHANGED cache /\ GetUntouched

\* workspace = self._workspace_cache.get(base_dir, None);
\* if workspace: return workspace
GetLookup(t) ==
    /\ At(t, "lookup")
    /\ IF cache_get(cache, Key(t)).open
       THEN calls' = [calls EXCEPT ![t].pc = "done",
                                   ![t].workspace = cache_get(cache, Key(t))]
       ELSE Goto(t, "load")
    /\ UNCHANGED cache /\ GetUntouched

\* workspace = Workspace.load(base_dir)
GetLoad(t) ==
    LET r == load(fs[Key(t)], "none", calls[t].raw, 1)
    IN /\ At(t, "load")
       /\ IF r.err # "ok" THEN Finish(t, r.err)
          ELSE GotoWith(t, "assert", Workspace(r.wf, InstanceOf(t)))
       /\ UNCHANGED cache /\ GetUntouched

\* assert base_dir not in self._workspace_cache
GetAssert(t) ==
    /\ At(t, "assert")
    /\ IF cache_get(cache, Key(t)).open
       THEN calls' = [calls EXCEPT ![t].pc = "done", ![t].err = "AssertionError",
                                   ![t].workspace = NoWorkspace]
       ELSE Goto(t, "put")
    /\ UNCHANGED cache /\ GetUntouched

\* self._workspace_cache[base_dir] = workspace; return workspace
GetPut(t) ==
    /\ At(t, "put")
    /\ cache' = cache_put(cache, Key(t), calls[t].workspace)
    /\ Finish(t, "ok")
    /\ GetUntouched

\* both callers have the outcomes of their calls
ReturnBoth ==
    /\ \A t \in Callers : At(t, "done")
    /\ calls' = [t \in Callers |-> NoCallUnderWay]
    /\ UNCHANGED cache /\ GetUntouched

\* the cache entry of d is dropped (the manager is used anew)
Forget(d) ==
    /\ \A t \in Callers : At(t, "idle")
    /\ cache[d].open
    /\ cache' = cache_del(cache, d)
    /\ UNCHANGED calls /\ GetUntouched

(***************************************************************************)
(* harmonize                                                               *)
(***************************************************************************)
\* A dataset is modelled by the names of its dimensions, each with its
\* coordinate variable.
DimNames == {"lat", "latitude", "lon", "longitude", "long", "time"}
Datasets == {dims \in SUBSET DimNames : "time" \in dims}
DatasetLists == UNION {[1..n -> Datasets] : n \in 0..MaxDatasets}
\* Python's None, as a name
NoName == "None"
\* xarray's Dataset.rename refuses a new name that is in the dataset; whether
\* it does so when the new name is the old name depends on the version of
\* the library
XarrayVersions == {"same_name_refused", "same_name_allowed"}

\* for name in possible_names: if name in xarray.dims: return name; return None
_get_dim_name(dims, possible_names) ==
    LET found == {i \in 1..Len(possible_names) : possible_names[i] \in dims}
    IN IF found = {} THEN NoName
       ELSE possible_names[CHOOSE i \in found : \A j \in found : i <= j]
_get_lon_dim_name(dims) == _get_dim_name(dims, <<"lon", "longitude", "long">>)
_get_lat_dim_name(dims) == _get_dim_name(dims, <<"lat", "latitude">>)

\* {lat_name: 'lat', lon_name: 'lon'}: of two equal keys the later one stays
name_dict(lat_name, lon_name) ==
    [k \in {lat_name, lon_name} |-> IF k = lon_name THEN "lon" ELSE "lat"]

\* Dataset.rename(name_dict, inplace=True): every old name must be in the
\* dataset and no new name may be; nothing is renamed when it raises
rename(dims, names, xr) ==
    IF \E k \in DOMAIN names : k \notin dims
    THEN [err |-> "ValueError", dims |-> dims]
    ELSE IF \E k \in DOMAIN names :
               names[k] \in dims /\ (k # names[k] \/ xr = "same_name_refused")
    THEN [err |-> "ValueError", dims |-> dims]
    ELSE [err |-> "ok", dims |-> (dims \ DOMAIN names) \cup {names[k] : k \in DOMAIN names}]

_harmonize_dataset(dims, xr) ==
    rename(dims, name_dict(_get_lat_dim_name(dims), _get_lon_dim_name(dims)), xr)

\* for dataset in datasets: _harmonize_dataset(dataset) -- the datasets up to
\* the first one that raises are renamed in place
harmonize(list, xr) ==
    LET raising == {i \in 1..Len(list) : _harmonize_dataset(list[i], xr).err # "ok"}
        first == CHOOSE i \in raising : \A j \in raising : i <= j
    IN IF raising = {}
       THEN [err |-> "ok", datasets |-> [i \in 1..Len(list) |->
                                            _harmonize_dataset(list[i], xr).dims]]
       ELSE [err |-> _harmonize_dataset(list[first], xr).err,
             datasets |-> [i \in 1..Len(list) |->
                              IF i < first THEN _harmonize_dataset(list[i], xr).dims
                              ELSE list[i]]]

HarmonizeLeaves ==
    UNCHANGED <<workflow, nextUid, fs, cache, nextWid, history, calls, registry>>
\* the caller makes its list of datasets
MakeDatasets(list) ==
    /\ datasets = <<>> /\ list # <<>>
    /\ datasets' = list
    /\ UNCHANGED last /\ HarmonizeLeaves
\* harmonize(datasets)
Harmonize(xr) ==
    \E r \in {harmonize(datasets, xr)} :
        /\ datasets' = r.datasets
        /\ last' = [NoCall EXCEPT !.call = "harmonize", !.err = r.err, !.io = xr]
        /\ HarmonizeLeaves

(***************************************************************************)
(* FigureRegistry                                                          *)
(***************************************************************************)
FigureIds == {13, 14}
\* the Figure objects, in the order they are made
Figures == 1..MaxFigures
NoFigure == 0
Observers == {"observer1", "observer2"}
\* an entry: (figure, dict(figure_id=figure_id))
Entry(figure, figure_id) == [figure |-> figure, figure_id |-> figure_id]
\* the call made last on the registry
RegistryCall(op, figure_id, figure, observer) ==
    [op |-> op, figure_id |-> figure_id, figure |-> figure, observer |-> observer]
\* FigureRegistry(): no entries, no observers; nothing observed, no call
\* yet, no Figure made
NewRegistry ==
    [entries |-> [i \in FigureIds |-> NoFigure], observers |-> {},
     observations |-> [o \in Observers |-> <<>>],
     call |-> RegistryCall("", 0, NoFigure, ""), made |-> 0]

has_entry(r, figure_id) == r.entries[figure_id] # NoFigure
\* every registered observer is called with (event, entry)
notify(r, event, entry) ==
    [o \in Observers |->
        IF o \in r.observers THEN Append(r.observations[o], <<event, entry>>)
        ELSE r.observations[o]]
\* every add_entry is announced as 'entry_added'
add_entry_AlwaysAdded(r, figure_id, figure) ==
    [r EXCEPT !.entries[figure_id] = figure,
              !.observations = notify(r, "entry_added", Entry(figure, figure_id))]
add_entry(r, figure_id, figure) ==
    [r EXCEPT !.entries[figure_id] = figure,
              !.observations =
                  notify(r, IF has_entry(r, figure_id) THEN "entry_updated" ELSE "entry_added",
                         Entry(figure, figure_id))]
remove_entry(r, figure_id) ==
    IF ~has_entry(r, figure_id) THEN r
    ELSE [r EXCEPT !.entries[figure_id] = NoFigure,
                   !.observations =
                       notify(r, "entry_removed", Entry(r.entries[figure_id], figure_id))]
add_observer(r, observer) == [r EXCEPT !.observers = @ \cup {observer}]
remove_observer(r, observer) == [r EXCEPT !.observers = @ \ {observer}]

\* a call on the registry returns its new state
RegistryLeaves(r, call) ==
    /\ registry' = [r EXCEPT !.call = call]
    /\ UNCHANGED <<workflow, nextUid, last, fs, cache, nextWid, history, calls, datasets>>
\* a new Figure is made and added under figure_id
AddEntry(figure_id) ==
    /\ registry.made < MaxFigures
    /\ RegistryLeaves([add_entry(registry, figure_id, registry.made + 1)
                          EXCEPT !.made = registry.made + 1],
                      RegistryCall("add_entry", figure_id, registry.made + 1, ""))
RemoveEntry(figure_id) ==
    RegistryLeaves(remove_entry(registry, figure_id),
                   RegistryCall("remove_entry", figure_id, NoFigure, ""))
\* an observer that has not been sent anything yet is registered
AddObserver(observer) ==
    /\ observer \notin registry.observers
    /\ registry.observations[observer] = <<>>
    /\ RegistryLeaves(add_observer(registry, observer),
                      RegistryCall("add_observer", 0, NoFigure, observer))
RemoveObserver(observer) ==
    /\ observer \in registry.observers
    /\ RegistryLeaves(remove_observer(registry, observer),
                      RegistryCall("remove_observer", 0, NoFigure, observer))

\* the calls of set_workspace_resource the model makes
ManagerArgLists ==
    {<<RawArg("x", "lit", "")>>, <<RawArg("x", "ref", NameOrder[1])>>,
     <<RawArg("z", "lit", "")>>}
SetWorkspaceResourceCalls ==
    [name : Names, op : CallOpNames, args : ManagerArgLists]

\* a Workspace object as Workspace.create leaves it; nothing on disk
Init ==
    /\ workflow = new_workflow("")
    /\ nextUid = 1
    /\ last = NoCall
    /\ fs = [d \in Dirs |-> NoFS]
    /\ cache = [d \in Dirs |-> NoWorkspace]
    /\ nextWid = 1
    /\ history = [d \in Dirs |-> NoHistory]
    /\ calls = [d \in Dirs |-> NoCallUnderWay]
    /\ registry = NewRegistry
    /\ datasets = <<>>

Next ==
    \/ /\ Idle
       /\ \E c \in SetResourceCalls :
              SetResource(c.name, c.op, c.args, c.can_exist, c.validate)
    \/ Return

Spec == Init /\ [][Next]_vars

\* only the calls of set_resource that return normally are made
NextSuccess ==
    \/ /\ Idle
       /\ \E c \in SetResourceCalls :
              /\ SetResource(c.name, c.op, c.args, c.can_exist, c.validate)
              /\ last'.err = "ok"
    \/ Return

SpecSuccess == Init /\ [][NextSuccess]_vars

\* a workspace is created, resources are set with success, and the
\* Workspace is stored and loaded, or written as JSON and read back
NextRoundTrip ==
    \/ /\ Idle
       /\ \/ \E d \in ManagedDirs, description \in Descriptions : CreateWorkspace(d, description)
          \/ \E d \in ManagedDirs :
                /\ fs[d].dir
                /\ \E c \in SetResourceCalls :
                      /\ set_resource(workflow, c.name, c.op, c.args, c.can_exist,
                                      c.validate, nextUid).err = "ok"
                      /\ SetResource(c.name, c.op, c.args, c.can_exist, c.validate)
          \/ \E d \in ManagedDirs, raw \in WindowsErrorOutcomes : StoreThenLoad(d, raw)
          \/ \E d \in ManagedDirs : JsonThenBack(d)
    \/ Return

SpecRoundTrip == Init /\ [][NextRoundTrip]_vars

\* the manager and the Workspace life cycle on the file system
NextFS ==
    \/ /\ Idle
       /\ nextUid <= MaxFSUid
       /\ \E d \in ManagedDirs :
            \/ \E description \in Descriptions, io \in {"none", "mkdir_base", "mkdir_dir", "write"} :
                  \/ WsCreate(d, description, io)
                  \/ \E p \in Spellings(d) : InitWorkspace(p, description, io)
            \/ \E io \in {"none", "read"}, raw \in WindowsErrorAt(fs[d]) :
                  \/ WsLoad(d, io, raw)
                  \/ \E p \in Spellings(d) : GetWorkspace(p, io, raw)
            \/ \E io \in {"none", "write"} : WsStore(d, io)
            \/ \E io \in {"none", "rmtree"}, partial \in BOOLEAN :
                  \/ WsDelete(d, io, partial)
                  \/ DeleteWorkspace(Relative(d), io, partial)
            \/ \E io \in {"none", "read", "remove", "write"}, raw \in WindowsErrorAt(fs[d]) :
                  CleanWorkspace(Relative(d), io, raw)
            \/ \E c \in SetWorkspaceResourceCalls, io \in {"none", "read", "write"},
                  raw \in WindowsErrorAt(fs[d]) :
                  SetWorkspaceResource(Relative(d), c.name, c.op, c.args, io, raw)
            \/ CrashInStore(d)
            \/ \E c \in SetWorkspaceResourceCalls, raw \in WindowsErrorAt(fs[d]) :
                  CrashInSetWorkspaceResource(Relative(d), c.name, c.op, c.args, raw)
            \/ \E raw \in WindowsErrorAt(fs[d]) :
                  CrashInCleanWorkspace(Relative(d), raw)
    \/ Return

SpecFS == Init /\ [][NextFS]_vars

\* the methods of one FSWorkspaceManager on the workspace of d, one call
\* after the other, with and without I/O failures
ManagerCall(d) ==
    \/ \E description \in Descriptions, io \in {"none", "mkdir_base", "mkdir_dir", "write"},
          p \in Spellings(d) :
          InitWorkspace(p, description, io)
    \/ \E io \in {"none", "read"}, raw \in WindowsErrorAt(fs[d]), p \in Spellings(d) :
          GetWorkspace(p, io, raw)
    \/ \E io \in {"none", "rmtree"}, partial \in BOOLEAN :
          DeleteWorkspace(Relative(d), io, partial)
    \/ \E io \in {"none", "read", "remove", "write"}, raw \in WindowsErrorAt(fs[d]) :
          CleanWorkspace(Relative(d), io, raw)
    \/ \E c \in SetWorkspaceResourceCalls, io \in {"none", "read", "write"},
          raw \in WindowsErrorAt(fs[d]) :
          SetWorkspaceResource(Relative(d), c.name, c.op, c.args, io, raw)

NextManager ==
    \/ /\ Idle
       /\ nextUid <= MaxFSUid
       /\ \E d \in ManagedDirs : ManagerCall(d)
    \/ Return

SpecManager == Init /\ [][NextManager]_vars

\* the same, and delete() on Workspace objects the callers hold
NextManagerAndWorkspace ==
    \/ /\ Idle
       /\ nextUid <= MaxFSUid
       /\ \E d \in ManagedDirs :
             \/ ManagerCall(d)
             \/ \E io \in {"none", "rmtree"}, partial \in BOOLEAN : WsDelete(d, io, partial)
    \/ Return

SpecManagerAndWorkspace == Init /\ [][NextManagerAndWorkspace]_vars

\* the manager building a workspace and executing its workflow to write or
\* plot a resource
NextExec ==
    \/ /\ Idle
       /\ \E d \in ManagedDirs : \E p \in Spellings(d), raw \in WindowsErrorOutcomes :
              \E c \in SetWorkspaceResourceCalls :
                  SetWorkspaceResource(p, c.name, c.op, c.args, "none", raw)
    \/ /\ last.call = ""
       /\ \E d \in ManagedDirs : \E p \in Spellings(d), raw \in WindowsErrorOutcomes :
            \/ \E description \in Descriptions : InitWorkspace(p, description, "none")
            \/ DeleteWorkspace(p, "none", FALSE)
            \/ \E res_name \in Names, failing \in FailingSets, io \in {"none", "read"} :
                  \/ WriteWorkspaceResource(p, res_name, failing, io, raw)
                  \/ \E plottable \in BOOLEAN :
                        PlotWorkspaceResource(p, res_name, failing, plottable, io, raw)
    \/ Return

SpecExec == Init /\ [][NextExec]_vars

\* the same, and get_workspace
NextReadOnly ==
    \/ NextExec
    \/ /\ last.call = ""
       /\ \E d \in ManagedDirs : \E p \in Spellings(d), raw \in WindowsErrorOutcomes :
             \E io \in {"none", "read"} : GetWorkspace(p, io, raw)

SpecReadOnly == Init /\ [][NextReadOnly]_vars

\* set_workspace_resource, its arguments kept in the record of the call
SetWorkspaceResourceWith(base_dir, res_name, op_name, op_args, io, raw) ==
    LET d == CacheKey(resolve_path(base_dir))
    IN \E r \in {set_workspace_resource(fs[d], cache[d], res_name, op_name, op_args, io, raw,
                                        nextUid, nextWid)} :
          /\ Leaves("set_workspace_resource", d, NoPath, r)
          /\ last' = [CallRecord("set_workspace_resource", d, NoPath, io, "", r) EXCEPT
                        !.name = res_name, !.op = op_name, !.args = op_args]

\* set_resource and set_workspace_resource called with and without a
\* resource name, an operation name and arguments
MaybeNames == Names \cup {""}
MaybeOpNames == CallOpNames \cup {""}
MaybeArgLists == ManagerArgLists \cup {<<>>}
NextAsserted ==
    \/ /\ Idle /\ nextUid <= MaxFSUid
       /\ \E res_name \in MaybeNames, op_name \in MaybeOpNames, op_args \in MaybeArgLists :
             \/ \E can_exist \in BOOLEAN :
                   SetResource(res_name, op_name, op_args, can_exist, TRUE)
             \/ \E d \in ManagedDirs, io \in {"none", "read"} :
                \E raw \in WindowsErrorAt(fs[d]) :
                   SetWorkspaceResourceWith(Relative(d), res_name, op_name, op_args, io, raw)
    \/ /\ last.call = ""
       /\ \E d \in ManagedDirs, description \in Descriptions :
             InitWorkspace(Relative(d), description, "none")
    \/ Return

SpecAsserted == Init /\ [][NextAsserted]_vars

\* lists of datasets are made and harmonized
NextHarmonize ==
    \/ /\ last.call = ""
       /\ \/ \E list \in DatasetLists : MakeDatasets(list)
          \/ \E xr \in XarrayVersions : Harmonize(xr)
    \/ Return

SpecHarmonize == Init /\ [][NextHarmonize]_vars

\* the remote manager against a network and a server that may do anything
NextWeb ==
    \/ /\ last.call = ""
       /\ \E x \in Exchanges :
            \/ \E method \in RemoteMethods : RemoteCall(method, x)
            \/ IsRunning(x)
    \/ Return

SpecWeb == Init /\ [][NextWeb]_vars

\* every call made on the local manager and, through the service, on the
\* remote manager
NextBoth ==
    \/ /\ Idle
       /\ nextUid <= MaxFSUid
       /\ \E d \in ManagedDirs, decoding \in FormDecodings :
             \E raw \in WindowsErrorAt(fs[d]), c \in SetWorkspaceResourceCalls :
                 BothSetWorkspaceResource(d, decoding, c.name, c.op, c.args, raw)
    \/ /\ last.call = ""
       /\ \E d \in ManagedDirs, decoding \in FormDecodings :
             \E raw \in WindowsErrorAt(fs[d]) :
                \/ BothGetWorkspace(d, decoding, raw)
                \/ \E description \in Optionals : BothInitWorkspace(d, decoding, description)
                \/ BothDeleteWorkspace(d, decoding)
                \/ BothCleanWorkspace(d, decoding, raw)
                \/ \E res_name \in Names, failing \in FailingSets, o \in Optionals :
                      \/ BothWriteWorkspaceResource(d, decoding, res_name, failing,
                                                    Str("v"), o, raw)
                      \/ \E file_path \in {None, Str("v")} :
                            BothPlotWorkspaceResource(d, decoding, res_name, failing, o,
                                                      file_path, raw)
    \/ Return

SpecBoth == Init /\ [][NextBoth]_vars

\* the calls of set_workspace_resource made while another call is under
\* way: one that sets a resource and one that fails on its arguments
ConcurrentCalls ==
    {c \in SetWorkspaceResourceCalls :
        /\ c.name = NameOrder[1] /\ c.op = "op1"
        /\ \A i \in DOMAIN c.args : c.args[i].e = "lit"}
NoArguments == [name |-> "", op |-> "", args |-> <<>>]

\* calls of the manager on the base directories, one at a time on each
\* directory, their statements interleaved
NextConcurrent ==
    \/ \E d \in Dirs : \E raw \in WindowsErrorAt(fs[d]) :
          \/ \E p \in Spellings(d) : Begin(d, "get_workspace", p, "", NoArguments, raw)
          \/ Begin(d, "init_workspace", Relative(d), "D", NoArguments, raw)
          \/ Begin(d, "delete_workspace", Relative(d), "", NoArguments, raw)
          \/ Begin(d, "clean_workspace", Relative(d), "", NoArguments, raw)
          \/ /\ cache[d].open => FreshUid(cache[d].wf) <= MaxFSUid
             /\ \E c \in ConcurrentCalls :
                   Begin(d, "set_workspace_resource", Relative(d), "", c, raw)
    \/ \E d \in Dirs : Step(d)
    \/ \E d \in Dirs : ReturnCall(d)

SpecConcurrent == Init /\ [][NextConcurrent]_vars

\* a workspace is created and changed on disk, and two callers call
\* get_workspace of one manager at once
NextSameDir ==
    \/ /\ Idle
       /\ \A t \in Callers : At(t, "idle")
       /\ \E d \in ManagedDirs :
             \/ \E description \in Descriptions : WsCreate(d, description, "none")
             \/ /\ nextUid <= MaxFSUid
                /\ \E c \in ConcurrentCalls :
                      SetWorkspaceResource(Relative(d), c.name, c.op, c.args, "none", "OSError")
    \/ Return
    \/ /\ last.call = ""
       /\ \/ \E t \in Callers, d \in ManagedDirs :
                \E p \in Spellings(d), raw \in WindowsErrorAt(fs[d]) : BeginGet(t, p, raw)
          \/ \E t \in Callers : GetLookup(t) \/ GetLoad(t) \/ GetAssert(t) \/ GetPut(t)
          \/ ReturnBoth
          \/ \E d \in ManagedDirs : Forget(d)

SpecSameDir == Init /\ [][NextSameDir]_vars

(***************************************************************************)
(* Two FSWorkspaceManager objects on one base directory                    *)
(***************************************************************************)
\* Each manager has its own _workspace_cache: cache[m] is the entry manager
\* m holds for the base directory SharedDir, fs[SharedDir] is the directory
\* both work on, and calls[m] is the last set_workspace_resource of m that
\* succeeded.
Managers == Dirs
SharedDir == "d1"

\* a call of manager m ends with outcome r
ManagerEnds(call, m, res_name, r) ==
    /\ fs' = [fs EXCEPT ![SharedDir] = r.f]
    /\ cache' = [cache EXCEPT ![m] = r.c]
    /\ nextUid' = nextUid + r.used
    /\ nextWid' = WidAfter(r.c, nextWid)
    /\ nextWid' <= MaxWid + 1
    /\ last' = [NoCall EXCEPT !.call = call, !.dir = m, !.name = res_name,
                              !.err = r.err, !.prefs = fs[SharedDir],
                              !.precache = cache[m]]
    /\ calls' = IF call = "set_workspace_resource" /\ r.err = "ok"
                THEN [calls EXCEPT ![m] = [NoCallUnderWay EXCEPT !.method = call,
                                                                 !.name = res_name]]
                ELSE calls
    /\ UNCHANGED <<workflow, history, registry, datasets>>

ManagerInit(m, description) ==
    \E r \in {init_workspace(fs[SharedDir], cache[m], description, "none", nextWid)} :
        ManagerEnds("init_workspace", m, "", r)
ManagerGet(m) ==
    \E r \in {get_workspace(fs[SharedDir], cache[m], "none", "OSError", nextUid, nextWid)} :
        ManagerEnds("get_workspace", m, "", r)
ManagerSet(m, res_name, op_name, op_args) ==
    \E r \in {set_workspace_resource(fs[SharedDir], cache[m], res_name, op_name, op_args,
                                     "none", "OSError", nextUid, nextWid)} :
        ManagerEnds("set_workspace_resource", m, res_name, r)

NextManagers ==
    \/ /\ Idle /\ nextUid <= MaxFSUid + 1
       /\ \E m \in Managers :
             \/ \E description \in Descriptions : ManagerInit(m, description)
             \/ ManagerGet(m)
             \/ \E c \in SetWorkspaceResourceCalls : ManagerSet(m, c.name, c.op, c.args)
    \/ Return

SpecManagers == Init /\ [][NextManagers]_vars

\* entries are added to and removed from a FigureRegistry while observers
\* come and go
NextFigures ==
    \/ \E figure_id \in FigureIds : AddEntry(figure_id)
    \/ \E figure_id \in FigureIds : RemoveEntry(figure_id)
    \/ \E observer \in Observers : AddObserver(observer)
    \/ \E observer \in Observers : RemoveObserver(observer)

SpecFigures == Init /\ [][NextFigures]_vars

(***************************************************************************)
(* Claims on Workspace.set_resource (Spec, SpecSuccess)                    *)
(***************************************************************************)
\* a call of set_resource has just ended
SetResourceEnded == last.call = "set_resource"
Raised == last.err # "ok"
\* the name of the call named a step when the call was made
DidExist == last.name \in StepIds(last.pre)
StepsAndAliasesUnchanged ==
    /\ workflow.steps = last.pre.steps
    /\ OutputNames(workflow) = OutputNames(last.pre)

\* C1: whenever set_resource raises, the step sequence and the set of
\* graph-level output names are what they were before the call
C1_SetResourceAtomic == (SetResourceEnded /\ Raised) => StepsAndAliasesUnchanged

\* C1 holds of every failure raised before the step is added to the workflow
C1_AtomicBeforeInsert ==
    (SetResourceEnded /\ Raised /\ last.err \notin {"NamedOutputs", "UnresolvedReference"})
        => workflow = last.pre

\* C2 as claimed: set_resource with can_exist=False on a name that names a
\* step fails with the resource-exists error, and the number of steps and
\* the set of output names are unchanged (op_args is not empty, as the
\* function asserts)
C2_DuplicateAlwaysRefused ==
    (SetResourceEnded /\ ~last.can_exist /\ DidExist /\ Len(last.args) > 0)
        => /\ last.err = "ResourceExists"
           /\ Len(workflow.steps) = Len(last.pre.steps)
           /\ OutputNames(workflow) = OutputNames(last.pre)

\* C2 as amended: the same, for calls with an operation the registry knows
C2_DuplicateRefused ==
    (SetResourceEnded /\ ~last.can_exist /\ DidExist
        /\ Len(last.args) > 0 /\ last.op \in OpNames)
        => /\ last.err = "ResourceExists"
           /\ Len(workflow.steps) = Len(last.pre.steps)
           /\ OutputNames(workflow) = OutputNames(last.pre)

\* C2 witness: a second set_resource on an existing name with can_exist=False
\* was refused in a workflow of two steps
C2_Witness ==
    /\ SetResourceEnded /\ ~last.can_exist /\ DidExist
    /\ Len(last.args) > 0 /\ last.op \in OpNames
    /\ last.err = "ResourceExists"
    /\ Len(workflow.steps) = 2

\* the input ports of the steps other than `name` whose source is an output
\* of the step `name`
DependentPorts(wf, name) ==
    {wf.steps[i].input[p] : i \in {j \in 1..Len(wf.steps) : wf.steps[j].id # name},
                            p \in OpInputs("op1")}
    \cap {SourcePort(name, o, u) : o \in {RETURN_OUTPUT_NAME, NAMED_OUTPUT_NAME},
                                   u \in 0..(MaxUid + 1)}

\* C3: when set_resource has replaced the step A, every input port of
\* another step that refers to an output of A is bound to the new step A,
\* not to the step replaced
C3_DependentsRebound ==
    (SetResourceEnded /\ ~Raised /\ DidExist)
        => \A port \in DependentPorts(workflow, last.name) :
              /\ port.tgt = FindNode(workflow, last.name).uid
              /\ port.tgt # FindNode(last.pre, last.name).uid

\* C3 witness: a step with a dependent port bound to it was replaced, and
\* the dependent port is bound to the new step
C3_Witness ==
    /\ SetResourceEnded /\ ~Raised /\ DidExist
    /\ \E old \in DependentPorts(last.pre, last.name) :
          old.tgt = FindNode(last.pre, last.name).uid
    /\ \E port \in DependentPorts(workflow, last.name) :
          port.tgt = FindNode(workflow, last.name).uid

\* C4: the graph-level output names are the ids of the steps
C4_OutputsAreSteps == OutputNames(workflow) = StepIds(workflow)

\* C5: every graph-level output n has as its source the 'return' output of
\* the step that is named n now (checked where every call has succeeded)
C5_AliasBoundToCurrentStep ==
    \A n \in OutputNames(workflow) :
        /\ n \in StepIds(workflow)
        /\ RETURN_OUTPUT_NAME \in OpOutputs(FindNode(workflow, n).op)
        /\ workflow.output[n] = SourcePort(n, RETURN_OUTPUT_NAME, FindNode(workflow, n).uid)

\* C5 witness: a step with an output alias was replaced, and the alias is
\* bound to the new step and no longer to the old one
C5_Witness ==
    /\ SetResourceEnded /\ ~Raised /\ DidExist
    /\ last.name \in OutputNames(last.pre)
    /\ workflow.output[last.name].tgt = FindNode(workflow, last.name).uid
    /\ workflow.output[last.name].tgt # last.pre.output[last.name].tgt

\* C6: a call of set_resource with an operation that has named outputs
\* fails, registers no graph-level output and leaves no step
C6_NamedOutputsFailFast ==
    (SetResourceEnded /\ Len(last.args) > 0 /\ has_named_outputs(last.op))
        => /\ Raised
           /\ workflow.steps = last.pre.steps
           /\ OutputNames(workflow) = OutputNames(last.pre)

\* the keyword arguments the call parsed
ParsedOk == parse_op_args(last.args, StepNamespace(last.pre)).ok
ParsedKwargs == parse_op_args(last.args, StepNamespace(last.pre)).kwargs
ParsedArgs == parse_op_args(last.args, StepNamespace(last.pre)).args
\* the places of the keys that are no input of the operation
UnknownKeys == {i \in 1..Len(ParsedKwargs) : ParsedKwargs[i].key \notin OpInputs(last.op)}
\* op_args parsed for a registered operation and has a key that is no input
UnknownKeyCase ==
    /\ SetResourceEnded /\ Len(last.args) > 0 /\ last.op \in OpNames
    /\ ParsedOk /\ UnknownKeys # {}

\* C7 as claimed: whenever a key of the parsed op_args is no input of the
\* operation, set_resource fails with the unknown-parameter error and no step
\* is inserted or replaced
C7_UnknownKeyAlwaysReported ==
    UnknownKeyCase => (last.err = "UnknownParameter" /\ workflow.steps = last.pre.steps)

\* the checks before the binding loop pass, and no argument before the
\* first unknown key is a namespace without 'return' output
ReachesUnknownKey ==
    /\ ~ExistsRefused(last.can_exist, DidExist)
    /\ Len(ParsedArgs) = 0
    /\ last.validate => validate_input_values(last.op, ParsedKwargs)
    /\ \A i \in 1..Len(ParsedKwargs) :
          i < SetMin(UnknownKeys) => BindError(last.op, ParsedKwargs[i]) = "ok"

\* C7 as amended: whenever a key of the parsed op_args is no input of the
\* operation, set_resource fails and leaves the workflow as it was; the error
\* is the unknown-parameter error when the earlier checks pass and no
\* earlier argument is illegal
C7_UnknownKeyReported ==
    UnknownKeyCase
        => /\ Raised
           /\ workflow = last.pre
           /\ ReachesUnknownKey => last.err = "UnknownParameter"

\* C7 witness: two keyword arguments, one of them unknown, in a workflow that
\* has steps, reported as unknown parameter
C7_Witness ==
    /\ UnknownKeyCase /\ ReachesUnknownKey
    /\ Len(ParsedKwargs) = 2
    /\ last.err = "UnknownParameter"
    /\ Len(workflow.steps) > 0

(***************************************************************************)
(* Claims on the Workspace life cycle and the manager (SpecFS)             *)
(***************************************************************************)
\* a fresh workflow with the description of the call is on disk
FreshWorkflowWritten ==
    /\ fs[last.dir].dir /\ fs[last.dir].file
    /\ fs[last.dir].json = to_json_dict(new_workflow(last.description))
    /\ Len(fs[last.dir].json.steps) = 0
    /\ fs[last.dir].json.header = last.description

\* C8: without I/O failure, Workspace.create and init_workspace fail with
\* the workspace-exists error exactly if the workflow file exists, and leave
\* the disk untouched then; otherwise they succeed and write a fresh workflow
C8_CreateFailsIffFileExists ==
    (last.call \in {"Workspace.create", "init_workspace"} /\ last.io = "none")
        => IF last.prefs.file
           THEN last.err = "WorkspaceError:exists" /\ fs[last.dir] = last.prefs
           ELSE last.err = "ok" /\ FreshWorkflowWritten

\* C8 holds of Workspace.create itself
C8_CreateOnly ==
    (last.call = "Workspace.create" /\ last.io = "none")
        => IF last.prefs.file
           THEN last.err = "WorkspaceError:exists" /\ fs[last.dir] = last.prefs
           ELSE last.err = "ok" /\ FreshWorkflowWritten

\* no persisted workflow is found: the data directory or the file is missing
NothingPersisted == ~last.prefs.dir \/ ~last.prefs.file

\* C9: Workspace.load, and get_workspace on a cache miss, fail with a
\* WorkspaceError when no persisted workflow is found
C9_LoadFailsWithWorkspaceError ==
    (last.call \in {"Workspace.load", "get_workspace"} /\ ~last.precache.open
        /\ NothingPersisted)
        => last.err \in WorkspaceErrors

\* C9 holds where the data directory exists and only the file is missing
C9_FileMissingOnly ==
    (last.call \in {"Workspace.load", "get_workspace"} /\ ~last.precache.open
        /\ last.prefs.dir /\ ~last.prefs.file)
        => last.err = "WorkspaceError:IOError"

LifeCycleCalls ==
    {"Workspace.create", "Workspace.load", "Workspace.store", "Workspace.delete",
     "init_workspace", "get_workspace", "clean_workspace", "delete_workspace",
     "set_workspace_resource"}
\* the call met a failing I/O call or a missing directory or file
DiskFailure == last.io # "none" \/ NothingPersisted

\* C10: a life cycle or manager operation that raises on a disk failure
\* raises a WorkspaceError
C10_DiskFailuresAreWorkspaceErrors ==
    (last.call \in LifeCycleCalls /\ DiskFailure /\ Raised)
        => last.err \in WorkspaceErrors

\* C10 holds of the I/O calls that fail with the data directory in place
C10_WrappedWhereDirExists ==
    (last.call \in LifeCycleCalls /\ last.io # "none" /\ last.prefs.dir /\ Raised
        /\ last.err \notin {"ValidationError", "UnresolvedReference", "AssertionError"})
        => last.err \in WorkspaceErrors

(***************************************************************************)
(* Claims on clean, delete and the cache of the manager (SpecFS)           *)
(***************************************************************************)
\* a workflow without steps and graph-level outputs
EmptyGraph(wf) ==
    /\ Len(wf.steps) = 0
    /\ \A n \in Names : wf.output[n] = UnsetPort

\* clean_workspace has succeeded on a workspace whose workflow file was there
CleanSucceeded ==
    /\ last.call = "clean_workspace" /\ last.err = "ok"
    /\ last.prefs.dir /\ last.prefs.file

\* the persisted workflow and the cached Workspace, which get_workspace
\* returns next, are empty and have the description that was persisted
CleanedKeepingDescription ==
    /\ fs[last.dir].file
    /\ EmptyGraph(fs[last.dir].json)
    /\ fs[last.dir].json.header = last.prefs.json.header
    /\ cache[last.dir].open
    /\ EmptyGraph(cache[last.dir].wf)
    /\ cache[last.dir].wf.header = last.prefs.json.header

\* C11: after clean_workspace(d) has succeeded on an initialised workspace,
\* the persisted workflow and the workspace that get_workspace(d) returns
\* have no steps, no graph-level outputs and the description of the workspace
C11_CleanKeepsDescription == CleanSucceeded => CleanedKeepingDescription

\* C11 holds where the workflow file could be loaded
C11_CleanKeepsDescriptionIfLoaded ==
    (CleanSucceeded /\ last.io # "read") => CleanedKeepingDescription

\* C11 witness: a workspace with description "D" and a step was cleaned
C11_Witness ==
    /\ CleanSucceeded /\ last.io # "read"
    /\ last.prefs.json.header = "D"
    /\ Len(last.prefs.json.steps) > 0
    /\ CleanedKeepingDescription

\* a delete has succeeded
DeleteSucceeded ==
    last.call \in {"delete_workspace", "Workspace.delete"} /\ last.err = "ok"
\* the workspace data directory and all in it is gone, the base directory is
\* as it was
SubtreeRemoved ==
    /\ ~fs[last.dir].dir /\ ~fs[last.dir].file
    /\ fs[last.dir].base = last.prefs.base

\* C12: after a delete has succeeded the data subtree is gone and nothing
\* else, and get_workspace fails as long as the workspace has not been
\* initialised again
C12_DeletedIsNotServed ==
    /\ DeleteSucceeded => SubtreeRemoved
    /\ (last.call = "get_workspace" /\ last.prehistory.deleted # "") => last.err # "ok"

\* C12 holds of what the delete leaves on disk
C12_SubtreeRemoved == DeleteSucceeded => SubtreeRemoved

\* C12 of delete_workspace alone
C12_ManagerDeletedIsNotServed ==
    (last.call = "get_workspace" /\ last.prehistory.deleted = "delete_workspace")
        => last.err # "ok"

\* get_workspace was called after a call of get_workspace that succeeded,
\* with no delete, clean or init of the directory in between
GetAfterGet == last.call = "get_workspace" /\ last.prehistory.by = "get_workspace"

\* C13: a get_workspace after a get_workspace of the same resolved directory,
\* however spelled, returns the same Workspace object, from the cache and
\* without loading
C13_SameInstanceFromCache ==
    GetAfterGet
        => /\ CacheKey(resolve_path(last.path)) = CacheKey(resolve_path(last.prehistory.path))
           /\ last.err = "ok"
           /\ last.ret.open /\ last.ret.wid = last.prehistory.wid
           /\ last.ret = last.precache
           /\ cache[last.dir] = last.precache
           /\ fs[last.dir] = last.prefs

\* C13 witness: the directory was spelled differently in the two calls, and
\* a read of the file would have failed in the second
C13_Witness ==
    /\ GetAfterGet
    /\ last.path # last.prehistory.path
    /\ last.io = "read"
    /\ last.err = "ok"
    /\ last.ret.open /\ last.ret.wid = last.prehistory.wid

\* init_workspace or clean_workspace has succeeded
InitOrCleanSucceeded ==
    last.call \in {"init_workspace", "clean_workspace"} /\ last.err = "ok"
\* get_workspace was called after an init_workspace or clean_workspace that
\* succeeded, with no delete, clean or init of the directory in between
GetAfterInitOrClean ==
    last.call = "get_workspace" /\ last.prehistory.by \in {"init_workspace", "clean_workspace"}

\* C14: a successful init_workspace or clean_workspace leaves in the cache a
\* Workspace object made by that call (after clean an empty one), and the
\* next get_workspace returns that object
C14_InitCleanReplaceEntry ==
    /\ InitOrCleanSucceeded
          => /\ cache[last.dir].open
             /\ cache[last.dir].wid = nextWid - 1
             /\ last.precache.open => cache[last.dir].wid > last.precache.wid
             /\ last.call = "clean_workspace" => EmptyGraph(cache[last.dir].wf)
    /\ GetAfterInitOrClean
          => /\ last.err = "ok"
             /\ last.ret.open /\ last.ret.wid = last.prehistory.wid

\* C14 witness: get_workspace returns the object of a clean_workspace that
\* replaced an earlier object
C14_Witness ==
    /\ GetAfterInitOrClean
    /\ last.prehistory.by = "clean_workspace"
    /\ last.err = "ok"
    /\ last.ret.wid = last.prehistory.wid
    /\ last.ret.wid > 1

\* the manager operations other than delete
KeepingCalls ==
    {"init_workspace", "get_workspace", "clean_workspace", "set_workspace_resource"}
\* a data directory holds its workflow file
OneWorkflowFile(f) == f.dir => f.file

\* C15: a manager operation other than delete that has found no data
\* directory, or one with its workflow file, leaves no data directory or one
\* with its workflow file, whether it has succeeded or failed
C15_DirHasWorkflowFile ==
    (last.call \in KeepingCalls /\ OneWorkflowFile(last.prefs))
        => OneWorkflowFile(fs[last.dir])

\* C15 holds of the operations that succeed
C15_DirHasWorkflowFileOnSuccess ==
    (last.call \in KeepingCalls /\ OneWorkflowFile(last.prefs) /\ last.err = "ok")
        => OneWorkflowFile(fs[last.dir])

\* C15 of clean_workspace alone
C15_CleanKeepsWorkflowFile ==
    (last.call = "clean_workspace" /\ OneWorkflowFile(last.prefs))
        => OneWorkflowFile(fs[last.dir])

(***************************************************************************)
(* Claims on persistence (SpecFS, SpecRoundTrip)                           *)
(***************************************************************************)
CrashCalls ==
    {"crash in Workspace.store", "crash in set_workspace_resource",
     "crash in clean_workspace"}
\* the workflow file is there and is the old or the new one
OldOrNewOnDisk ==
    /\ fs[last.dir].dir /\ fs[last.dir].file
    /\ fs[last.dir].json \in {last.prefs.json, last.new}

\* C16: wherever Workspace.store, set_workspace_resource or clean_workspace
\* is interrupted on an existing workspace, the workflow file on disk is the
\* complete old graph or the complete new graph
C16_CrashAtomic == last.call \in CrashCalls => OldOrNewOnDisk

\* C16 holds of store and set_workspace_resource, where Workflow.store
\* replaces the file in one step
C16_StoreCrashAtomic ==
    last.call \in {"crash in Workspace.store", "crash in set_workspace_resource"}
        => OldOrNewOnDisk

\* A workflow up to the identity of its step objects: a step is named by its
\* place, a port bound to a step by the place of that step (0: bound to no
\* step of the workflow)
PlaceOf(wf, uid) ==
    IF \E i \in 1..Len(wf.steps) : wf.steps[i].uid = uid
    THEN CHOOSE i \in 1..Len(wf.steps) : wf.steps[i].uid = uid
    ELSE 0
PortUpToIdentity(wf, port) == [port EXCEPT !.tgt = PlaceOf(wf, port.tgt)]
UpToIdentity(wf) ==
    [header |-> wf.header,
     steps |-> [i \in 1..Len(wf.steps) |->
                  [wf.steps[i] EXCEPT
                     !.uid = i,
                     !.input = [p \in DOMAIN wf.steps[i].input |->
                                  PortUpToIdentity(wf, wf.steps[i].input[p])]]],
     output |-> [n \in Names |-> PortUpToIdentity(wf, wf.output[n])]]

RoundTripCalls == {"store+load", "to_json_dict+from_json_dict"}
\* the base directory of the Workspace object: where it was created
CreatedIn(d) == fs[d].dir

ExecutionCalls == {"write_workspace_resource", "plot_workspace_resource"}
\* the workflow that was executed: that of the Workspace the call worked on
ExecutedWorkflow == cache[last.dir].wf
\* the place of a step in the order of invocation, 0 if it was not invoked
InvokedAt(id) ==
    IF \E k \in 1..Len(last.invoked) : last.invoked[k] = id
    THEN CHOOSE k \in 1..Len(last.invoked) : last.invoked[k] = id
    ELSE 0
\* the steps, other than the requested one, that the requested step reads
\* from
ReadBy(wf, id) ==
    {wf.steps[i].id : i \in {j \in 1..Len(wf.steps) :
                               /\ wf.steps[j].id # id
                               /\ wf.steps[j].uid \in SourceUids(FindNode(wf, id))}}
\* resource B = last.name was requested, it reads from another step A, and
\* the execution succeeded
RequestedDependent ==
    /\ last.call \in ExecutionCalls /\ last.result # {}
    /\ last.name \in StepIds(ExecutedWorkflow) \cap OutputNames(ExecutedWorkflow)
    /\ ReadBy(ExecutedWorkflow, last.name) # {}

\* C18: when B, which reads from A, is the one resource requested, A is
\* invoked before B and the mapping returned holds exactly B
C18_OnlyRequestedReturned ==
    RequestedDependent
        => /\ \A a \in ReadBy(ExecutedWorkflow, last.name) :
                 0 < InvokedAt(a) /\ InvokedAt(a) < InvokedAt(last.name)
           /\ last.result = {last.name}

\* C18 holds of the order of invocation
C18_SourceInvokedFirst ==
    RequestedDependent
        => \A a \in ReadBy(ExecutedWorkflow, last.name) :
              0 < InvokedAt(a) /\ InvokedAt(a) < InvokedAt(last.name)

\* C18 witness (order of invocation): B was inserted before A and reads
\* from it, and A was invoked first
C18_Witness ==
    /\ RequestedDependent
    /\ \E a \in ReadBy(ExecutedWorkflow, last.name) :
          /\ StepIndex(ExecutedWorkflow, a) > StepIndex(ExecutedWorkflow, last.name)
          /\ InvokedAt(a) < InvokedAt(last.name)

\* an operation has failed in the execution
OperationFailed ==
    /\ last.call \in ExecutionCalls
    /\ \E k \in 1..Len(last.invoked) : last.invoked[k] \in last.failing

\* C19: when an operation fails in the execution, the caller gets a
\* WorkspaceError, no result mapping, and nothing is handed to the writer or
\* plotter
C19_ExecutionErrorIsWorkspaceError ==
    OperationFailed
        => /\ last.err \in WorkspaceErrors
           /\ last.result = {}
           /\ last.obj = NoObject

\* C19 holds of what is returned and handed on
C19_NothingHandedOnFailure ==
    OperationFailed
        => /\ last.err # "ok"
           /\ last.result = {}
           /\ last.obj = NoObject
           /\ Len(last.invoked) = InvokedAt(CHOOSE n \in last.failing : TRUE)

\* C20: the object handed to the writer or plotter is the value of the
\* resource res_name, whether res_name names a resource or not
C20_OneResourceHanded ==
    (last.call \in ExecutionCalls /\ last.obj # NoObject) => last.obj = Value(last.name)

\* C20 holds of plot_workspace_resource
C20_OneResourcePlotted ==
    (last.call = "plot_workspace_resource" /\ last.obj # NoObject)
        => last.obj = Value(last.name)

\* the ids of the steps that the step named id depends on, itself included
DependenciesOf(wf, id) ==
    {wf.steps[i].id : i \in DependsOn(wf, {StepIndex(wf, id)}, Len(wf.steps))}
\* write or plot was called for a resource of the workspace, and the
\* workflow was executed
RequestedResource ==
    /\ last.call \in ExecutionCalls
    /\ last.invoked # <<>>
    /\ last.name \in StepIds(ExecutedWorkflow)

\* C21: the execution for resource r invokes only r and the steps r depends
\* on
C21_OnlyDependenciesInvoked ==
    RequestedResource
        => SeqRange(last.invoked) \subseteq DependenciesOf(ExecutedWorkflow, last.name)

\* C21 holds of the graph-level outputs taken together: a step that no
\* graph-level output depends on is not invoked
C21_OnlyOutputDependenciesInvoked ==
    last.call \in ExecutionCalls
        => \A id \in SeqRange(last.invoked) :
              \E n \in OutputNames(ExecutedWorkflow) :
                  id \in DependenciesOf(ExecutedWorkflow, ExecutedWorkflow.output[n].node)

(***************************************************************************)
(* Claims on WebAPIWorkspaceManager (SpecWeb)                              *)
(***************************************************************************)
\* a method of the remote manager was called and the server answered with
\* a JSON envelope
Answered ==
    /\ last.call = "WebAPIWorkspaceManager"
    /\ last.web.net = "response" /\ last.web.body.kind = "object"
\* the message of an error envelope: its message, its type name when no
\* message is given
EnvelopeMessage(body) ==
    IF Truthy(body.error.message) THEN body.error.message ELSE body.error.type

\* C22: an envelope with status "error" makes every method fail with
\* WorkspaceError carrying the message of the envelope (its type name when
\* it has no message); with any other status _fetch_json returns the
\* content of the envelope
C22_ErrorEnvelopeIsWorkspaceError ==
    Answered
        => IF last.web.body.status = "error"
           THEN /\ last.err = "WorkspaceError:remote"
                /\ last.web.msg = EnvelopeMessage(last.web.body)
           ELSE /\ last.web.content = last.web.body.content
                /\ last.err \notin TransportFailures \cup {"WorkspaceError:remote"}

\* C22 witness: set_workspace_resource answered with an error envelope that
\* has a type name and no message
C22_Witness ==
    /\ Answered
    /\ last.web.method = "set_workspace_resource"
    /\ last.web.body.status = "error"
    /\ last.web.body.error = Details(None, Str("T"))
    /\ last.web.msg = Str("T")

\* C23: a timeout or connection failure of the request is surfaced as
\* WorkspaceError
C23_TransportFailureIsWorkspaceError ==
    (last.call = "WebAPIWorkspaceManager" /\ last.web.net \in {"URLError", "timeout"})
        => last.err \in WorkspaceErrors

\* C23 holds of what the caller gets instead: the exception of urlopen
C23_TransportFailureIsRaisedAsIs ==
    (last.call = "WebAPIWorkspaceManager" /\ last.web.net \in TransportFailures)
        => last.err = last.web.net

\* C24: is_running returns True whenever the server answers with an ok or
\* an error envelope, and False only when the request fails at transport
\* level
C24_RunningWhenAnswered ==
    last.call = "is_running"
        => /\ (last.web.net = "response" /\ last.web.body.kind = "object")
                  => last.web.running
           /\ ~last.web.running => last.web.net \in TransportFailures

\* C24 holds of what is_running gives: False, whatever the server does
C24_NeverRunning ==
    last.call = "is_running" => ~last.web.running

(***************************************************************************)
(* Claims on the two managers taken together (SpecBoth)                    *)
(***************************************************************************)
\* the local call and the remote call end alike: both succeed or both
\* fail, disk and workflow of the local manager and of the service are the
\* same, and a Workspace returned by the remote manager is that of the local
\* one up to the identity of the objects
SameOutcome(b) ==
    /\ (b.lerr = "ok") = (b.rerr = "ok")
    /\ b.lf = b.sf
    /\ b.lc.open = b.sc.open
    /\ UpToIdentity(b.lc.wf) = UpToIdentity(b.sc.wf)
    /\ (b.ret.given /\ b.lerr = "ok")
           => UpToIdentity(b.ret.wf) = UpToIdentity(b.lc.wf)

\* C25: every method with the same inputs, calls that omit optional
\* arguments included, ends alike on the local and on the remote manager
C25_Interchangeable ==
    last.call = "local+remote" => SameOutcome(last.both)

\* the workflow can be read back from its JSON: no failed set_resource has
\* left a source without its step in it
Readable(wf) == from_json_dict(to_json_dict(wf), 1).err = "ok"

\* C25 holds of the calls whose optional arguments are given and are not
\* the string "None", and of the calls that have no optional argument, as
\* long as the cached workflow can be read back; the sinks are then called
\* with the same arguments as well
C25_InterchangeableWithArgumentsGiven ==
    (/\ last.call = "local+remote"
     /\ last.both.optional \subseteq {Str("v")}
     /\ Readable(last.both.sc.wf))
        => /\ SameOutcome(last.both)
           /\ last.both.lsink = last.both.ssink

\* C25 for the calls that omit their optional arguments, with a service
\* that takes form fields as they are sent
C25_InterchangeableArgumentsOmitted ==
    (/\ last.call = "local+remote"
     /\ last.both.optional \subseteq {None}
     /\ last.both.decoding = "as sent"
     /\ Readable(last.both.sc.wf))
        => SameOutcome(last.both)

\* C25 for a service that takes the form field "None" for a missing value
C25_InterchangeableNoneIsMissing ==
    (/\ last.call = "local+remote"
     /\ last.both.decoding = "None is missing"
     /\ Readable(last.both.sc.wf))
        => SameOutcome(last.both)

(***************************************************************************)
(* Claims on calls on different base directories (SpecConcurrent)          *)
(***************************************************************************)
\* the call on d alone: the method as a whole on what the call found on
\* disk and in the cache when it began
Alone(d) ==
    LET k == calls[d]
    IN CASE k.method = "get_workspace" ->
                get_workspace(k.f0, k.c0, "none", k.raw, 1, 0)
         [] k.method = "init_workspace" ->
                init_workspace(k.f0, k.c0, k.description, "none", 0)
         [] k.method = "delete_workspace" ->
                delete_workspace(k.f0, k.c0, "none", FALSE)
         [] k.method = "clean_workspace" ->
                clean_workspace(k.f0, k.c0, "none", k.raw, 1, 0)
         [] OTHER ->
                set_workspace_resource(k.f0, k.c0, k.name, k.op, k.args, "none", k.raw,
                                       IF k.c0.open THEN FreshUid(k.c0.wf) ELSE 1, 0)
\* the call on d has ended as it would have alone
EndedAsAlone(d) ==
    At(d, "done")
        => /\ calls[d].err = Alone(d).err
           /\ fs[d] = Alone(d).f
           /\ cache[d] = Alone(d).c
\* a statement of the call on d leaves the cache entry, the workflow in
\* memory and the disk of every other base directory as they are
LeavesOthers(d) ==
    calls'[d] # calls[d]
        => \A e \in Dirs \ {d} : cache'[e] = cache[e] /\ fs'[e] = fs[e]

\* C26: under any interleaving a call on one base directory leaves the
\* cache entry, the workflow in memory and the workflow file of every other
\* base directory unchanged, and ends as if it had run alone
C26_NoInterference ==
    /\ [][\A d \in Dirs : LeavesOthers(d)]_vars
    /\ [](\A d \in Dirs : EndedAsAlone(d))

\* C26 witness: set_workspace_resource has ended on one base directory
\* while clean_workspace on another one is between removing the workflow
\* file and storing the new one
C26_Witness ==
    \E d \in Dirs, e \in Dirs :
        /\ d # e
        /\ At(d, "done") /\ calls[d].method = "set_workspace_resource"
        /\ calls[d].err = "ok"
        /\ At(e, "clean_store")
        /\ cache[e].open /\ ~fs[e].file

(***************************************************************************)
(* Claims on replacing a resource (Spec, SpecSuccess)                      *)
(***************************************************************************)
\* set_resource has put its step in the place of the step of the same name
Replaced ==
    /\ SetResourceEnded /\ DidExist
    /\ last.err \in {"ok", "NamedOutputs", "UnresolvedReference"}
\* the binding op_args gives to the input p: a value, the source named, or
\* nothing
GivenBinding(p) ==
    LET kwargs == parse_op_args(last.args, StepNamespace(last.pre)).kwargs
        at == {i \in 1..Len(kwargs) : kwargs[i].key = p}
    IN IF at = {} THEN UnsetPort
       ELSE [BoundPort(kwargs[CHOOSE i \in at : \A j \in at : j <= i]) EXCEPT !.tgt = 0]
Binding(port) == [port EXCEPT !.tgt = 0]

\* C27: when set_resource has replaced the step named name, the number of
\* steps is what it was, the step named name is at the position it had, and
\* each of its input ports carries the binding op_args gives it and nothing
\* else
C27_ReplacedInPlace ==
    Replaced
        => /\ Len(workflow.steps) = Len(last.pre.steps)
           /\ StepIndex(workflow, last.name) = StepIndex(last.pre, last.name)
           /\ \A i \in 1..Len(workflow.steps) : workflow.steps[i].id = last.pre.steps[i].id
           /\ LET step == FindNode(workflow, last.name)
              IN /\ step.uid # FindNode(last.pre, last.name).uid
                 /\ DOMAIN step.input = OpInputs(last.op)
                 /\ \A p \in DOMAIN step.input : Binding(step.input[p]) = GivenBinding(p)

\* C27 witness: the first of two steps, which had a value on x, was
\* replaced by a step with nothing but another value on y
C27_Witness ==
    /\ Replaced /\ ~Raised
    /\ Len(workflow.steps) = 2 /\ StepIndex(workflow, last.name) = 1
    /\ FindNode(last.pre, last.name).input["x"] = ValuePort("bad")
    /\ FindNode(workflow, last.name).input["x"] = UnsetPort
    /\ FindNode(workflow, last.name).input["y"] = ValuePort("good")

(***************************************************************************)
(* Claims on FigureRegistry (SpecFigures)                                  *)
(***************************************************************************)
\* what the call made in this step sends to an observer registered before it
EventOf(call) ==
    CASE call.op = "add_entry" ->
            <<<<IF registry.entries[call.figure_id] # NoFigure
                THEN "entry_updated" ELSE "entry_added",
                Entry(call.figure, call.figure_id)>>>>
      [] call.op = "remove_entry" /\ registry.entries[call.figure_id] # NoFigure ->
            <<<<"entry_removed",
                Entry(registry.entries[call.figure_id], call.figure_id)>>>>
      [] OTHER -> <<>>
RegistryCalled == registry' # registry

SourceInWorkflow(wf, port) ==
    port.t = "src"
        => \E i \in 1..Len(wf.steps) :
              /\ wf.steps[i].uid = port.tgt
              /\ wf.steps[i].id = port.node
              /\ port.port \in OpOutputs(wf.steps[i].op)
InputPorts(wf) ==
    {wf.steps[i].input[p] : i \in 1..Len(wf.steps), p \in OpInputs("op1")}

\* C29: in every state every input port of every step that has a source
\* refers to an output port of a step that is part of the workflow
C29_SourcesInWorkflow ==
    \A port \in InputPorts(workflow) : SourceInWorkflow(workflow, port)

\* what holds after failed calls too: a source that is bound is bound to a
\* step of the workflow; a source may be left unbound
C29_NoStaleBinding ==
    \A port \in InputPorts(workflow) :
        (port.t = "src" /\ port.tgt # 0) => SourceInWorkflow(workflow, port)

(***************************************************************************)
(* Claims on the dependencies between steps (SpecSuccess)                  *)
(***************************************************************************)
\* <<i, j>>: an input of the step at place i has an output of the step at
\* place j as its source
ReadsFrom(wf) ==
    {e \in (1..Len(wf.steps)) \X (1..Len(wf.steps)) :
        wf.steps[e[2]].uid \in SourceUids(wf.steps[e[1]])}
\* R with the pairs joined by paths of up to n + 1 edges of R
RECURSIVE Paths(_, _)
Paths(R, n) ==
    IF n = 0 THEN R
    ELSE LET P == Paths(R, n - 1)
         IN P \cup {<<q[1][1], q[2][2]>> : q \in {r \in P \X R : r[1][2] = r[2][1]}}
\* the steps that depend, directly or transitively, on their own output
OnCycle(wf) == {i \in 1..Len(wf.steps) : <<i, i>> \in Paths(ReadsFrom(wf), Len(wf.steps))}

\* C30: after successful calls of set_resource no step's inputs depend,
\* directly or transitively, on that step's own output
C30_Acyclic == OnCycle(workflow) = {}

\* what does hold: a call that adds a step under a new name makes no cycle
C30_NewStepMakesNoCycle ==
    (SetResourceEnded /\ ~Raised /\ ~DidExist /\ OnCycle(last.pre) = {})
        => OnCycle(workflow) = {}

(***************************************************************************)
(* Claims on one FSWorkspaceManager used sequentially (SpecManager)        *)
(***************************************************************************)
ManagerCalls ==
    {"get_workspace", "init_workspace", "clean_workspace", "delete_workspace",
     "set_workspace_resource"}
\* a method of the manager has just ended
ManagerCallEnded == last.call \in ManagerCalls
\* the workflow of the cached Workspace of d is the one in its workflow file
CachedIsPersisted(d) ==
    cache[d].open => /\ fs[d].dir /\ fs[d].file
                     /\ to_json_dict(cache[d].wf) = fs[d].json

\* C31: after every manager operation, successful or failed, the workflow
\* of each cached workspace equals the one in its workflow file
C31_CacheEqualsDisk ==
    ManagerCallEnded => \A d \in Dirs : CachedIsPersisted(d)

\* the particular case of C31: a set_workspace_resource that fails on a
\* workspace whose cached workflow was the one on disk leaves it so
C31_FailedSetLeavesCacheOnDisk ==
    (last.call = "set_workspace_resource" /\ Raised /\ last.io = "none"
        /\ last.precache.open /\ last.prefs.file
        /\ to_json_dict(last.precache.wf) = last.prefs.json)
        => CachedIsPersisted(last.dir)

\* what does hold: after init_workspace, clean_workspace and
\* set_workspace_resource have returned normally, the workflow of the
\* cached workspace of their directory is the one on disk
C31_CacheEqualsDiskAfterWrite ==
    (last.call \in {"init_workspace", "clean_workspace", "set_workspace_resource"}
        /\ ~Raised)
        => cache[last.dir].open /\ CachedIsPersisted(last.dir)

\* C32: get_workspace(d) succeeds only if d has a workflow file, and a
\* manager operation that fails leaves the cache as it was
C32_CacheEntriesOnDisk ==
    /\ (last.call = "get_workspace" /\ ~Raised) => fs[last.dir].file
    /\ (ManagerCallEnded /\ Raised) => cache[last.dir] = last.precache

\* what does hold: get_workspace, init_workspace and delete_workspace leave
\* the cache as it was when they fail
C32_FailedGetInitDeleteKeepCache ==
    (last.call \in {"get_workspace", "init_workspace", "delete_workspace"} /\ Raised)
        => cache[last.dir] = last.precache

(***************************************************************************)
(* Claims on the cache assertions (SpecManagerAndWorkspace)                *)
(***************************************************************************)
\* C33: the assertions of get_workspace and init_workspace never fail, and
\* whenever init_workspace has created the workspace on disk it returns it
C33_AssertionsHold ==
    /\ last.call \in {"get_workspace", "init_workspace"} => last.err # "AssertionError"
    /\ (last.call = "init_workspace" /\ ~last.prefs.dir /\ fs[last.dir].file)
          => (~Raised /\ last.ret.open)

\* what does hold: the assertion of get_workspace never fails
C33_GetAssertionHolds ==
    last.call = "get_workspace" => last.err # "AssertionError"

(***************************************************************************)
(* Claims on two callers of get_workspace (SpecSameDir)                    *)
(***************************************************************************)
\* both callers called get_workspace on the same base directory while it
\* had a workflow file and no cache entry, and both calls have ended
BothGotUncached ==
    /\ \A t \in Callers :
          /\ At(t, "done") /\ calls[t].method = "get_workspace"
          /\ calls[t].f0.file /\ ~calls[t].c0.open
    /\ \A t \in Callers, u \in Callers : Key(t) = Key(u)

\* C34: two get_workspace calls at once on the same existing base directory
\* that is not cached both succeed and return the same Workspace instance,
\* which is the one entry of the cache for the directory
C34_BothGetSameInstance ==
    BothGotUncached
        => \A t \in Callers :
              /\ calls[t].err = "ok"
              /\ calls[t].workspace.open
              /\ calls[t].workspace = cache[Key(t)]

\* what does hold: one of the two calls succeeds, and the cache holds an
\* instance that one of them returned
C34_OneGetSucceeds ==
    BothGotUncached
        => \E t \in Callers :
              /\ calls[t].err = "ok"
              /\ calls[t].workspace.open
              /\ calls[t].workspace = cache[Key(t)]

(***************************************************************************)
(* Claims on two managers of one base directory (SpecManagers)             *)
(***************************************************************************)
\* the names of the steps of the persisted workflow
PersistedNames == {fs[SharedDir].json.steps[i].id : i \in 1..Len(fs[SharedDir].json.steps)}
\* each manager has set a resource, the two under different names
BothManagersSet ==
    /\ \A m \in Managers : calls[m].method = "set_workspace_resource"
    /\ calls["d1"].name # calls["d2"].name

\* C35: when each of two managers of one base directory has set a resource,
\* under different names, the persisted workflow contains both resources
C35_NoLostUpdate ==
    BothManagersSet => \A m \in Managers : calls[m].name \in PersistedNames

\* what does hold: the resource a manager has just set is in the persisted
\* workflow
C35_LastSetPersisted ==
    last.call = "set_workspace_resource" /\ last.err = "ok"
        => fs[SharedDir].file /\ last.name \in PersistedNames

(***************************************************************************)
(* Claims on a workspace made anew after its deletion (SpecManager)        *)
(***************************************************************************)
\* base directory d is as a successful delete_workspace leaves it
AsDeleted(d) ==
    /\ history[d].deleted = "delete_workspace"
    /\ ~fs[d].dir /\ ~cache[d].open
\* the call that ends in this step
Called(call, d) == last.call = "" /\ last'.call = call /\ last'.dir = d
\* a delete_workspace that succeeds leaves neither directory nor cache entry
DeleteLeavesNothing ==
    \A d \in ManagedDirs :
        last.call = "delete_workspace" /\ last.dir = d /\ last.err = "ok" => AsDeleted(d)
\* on a base directory as delete_workspace left it, init_workspace succeeds
\* (when no I/O call fails) and its workspace is empty, cached and persisted
InitAfterDelete ==
    \A d \in ManagedDirs :
        AsDeleted(d) /\ Called("init_workspace", d) /\ last'.io = "none"
            => /\ last'.err = "ok"
               /\ last'.ret = cache'[d] /\ cache'[d].open
               /\ cache'[d].wf.steps = <<>> /\ OutputNames(cache'[d].wf) = {}
               /\ fs'[d].dir /\ fs'[d].file
               /\ fs'[d].json = to_json_dict(new_workflow(last'.description))
\* get_workspace after init_workspace returns the workspace init_workspace
\* returned
GetAfterInit ==
    \A d \in ManagedDirs :
        history[d].by = "init_workspace" /\ Called("get_workspace", d)
            => /\ last'.err = "ok"
               /\ last'.ret = cache[d] /\ cache'[d] = cache[d]
               /\ last'.ret.wid = history[d].wid

\* C36: after delete_workspace(d) has succeeded, init_workspace(d) succeeds
\* and yields an empty workspace, which the following get_workspace(d)
\* returns; nothing of the deleted workspace is in it
C36_InitAfterDeleteIsNew ==
    /\ []DeleteLeavesNothing
    /\ [][InitAfterDelete]_vars
    /\ [][GetAfterInit]_vars
\* init_workspace has succeeded after the deletion of a workspace, and a
\* step had been made in a workspace before
C36_Witness ==
    /\ last.call = "init_workspace" /\ last.err = "ok"
    /\ last.prehistory.deleted = "delete_workspace"
    /\ nextUid > 1
    /\ cache[last.dir].wf.steps = <<>>

(***************************************************************************)
(* Claims on the calls that only read the graph (SpecReadOnly)             *)
(***************************************************************************)
ReadOnlyCalls == {"get_workspace", "write_workspace_resource", "plot_workspace_resource"}
\* the call on d that ends in this step leaves the workspace directory and
\* the cached workflow as they were, or caches the workflow it has loaded
\* from the file
GraphUntouched(d) ==
    /\ fs'[d] = fs[d]
    /\ \/ cache'[d] = cache[d]
       \/ /\ ~cache[d].open /\ cache'[d].open /\ last'.err = "ok"
          /\ to_json_dict(cache'[d].wf) = fs[d].json

CalledWithout ==
    /\ last.call = ""
    /\ last'.name = "" \/ last'.op = "" \/ last'.args = <<>>
\* set_resource without a name or arguments fails its assertion, whether the
\* operation is known or not, and leaves the workflow
SetResourceAsserts ==
    CalledWithout /\ last'.call = "set_resource"
        => last'.err = "AssertionError" /\ workflow' = workflow
\* set_workspace_resource without a name or arguments fails in get_workspace
\* or by the assertion, and leaves the workflow and the workflow file
SetWorkspaceResourceAsserts ==
    \A d \in ManagedDirs :
        CalledWithout /\ last'.call = "set_workspace_resource" /\ last'.dir = d
            => /\ IF cache'[d].open THEN last'.err = "AssertionError"
                  ELSE last'.err \in {"WorkspaceError:IOError"} \cup WindowsErrorOutcomes
               /\ GraphUntouched(d)

\* C38: set_resource called with an empty op_args, res_name or op_name fails
\* an assertion before the operation is looked up, and the workflow and the
\* workflow file are unchanged
C38_EmptyArgumentsRejected ==
    /\ [][SetResourceAsserts]_vars
    /\ [][SetWorkspaceResourceAsserts]_vars
\* set_workspace_resource was called with a known operation and no
\* arguments on a workspace with a step, and has failed its assertion
C38_Witness ==
    /\ last.call = "set_workspace_resource" /\ last.args = <<>>
    /\ last.name # "" /\ last.op \in OpNames
    /\ last.err = "AssertionError"
    /\ cache[last.dir].wf.steps # <<>>

(***************************************************************************)
(* Claims on harmonize (SpecHarmonize)                                     *)
(***************************************************************************)
LatNames == <<"lat", "latitude">>
LonNames == <<"lon", "longitude", "long">>
\* the first of the candidate names that is a dimension of the dataset, if any
FirstPresent(dims, candidates) ==
    {candidates[i] : i \in {j \in 1..Len(candidates) :
                               /\ candidates[j] \in dims
                               /\ \A k \in 1..(j - 1) : candidates[k] \notin dims}}
\* the dataset with the first latitude name present named 'lat' and the
\* first longitude name present named 'lon'
Harmonized(dims) ==
    LET lat == FirstPresent(dims, LatNames)
        lon == FirstPresent(dims, LonNames)
    IN ((dims \ lat) \ lon) \cup (IF lat = {} THEN {} ELSE {"lat"})
                            \cup (IF lon = {} THEN {} ELSE {"lon"})
HarmonizeCalled == last.call = "" /\ last'.call = "harmonize"

\* C39: harmonize renames, in every dataset of the list, the first latitude
\* name present to 'lat' and the first longitude name present to 'lon',
\* leaves a dataset with 'lat' and 'lon' or with none of the names as it is,
\* and raises no error
C39_HarmonizeRenames ==
    [][HarmonizeCalled
          => /\ last'.err = "ok"
             /\ datasets' = [i \in 1..Len(datasets) |-> Harmonized(datasets[i])]]_vars

\* what does hold: with a library that allows the same name, harmonize
\* does so when every dataset has a latitude and a longitude name, and then
\* a second harmonize changes nothing
C39_HarmonizeRenamesLatAndLon ==
    [][(/\ HarmonizeCalled /\ last'.io = "same_name_allowed"
        /\ \A n \in 1..Len(datasets) :
              /\ FirstPresent(datasets[n], LatNames) # {}
              /\ FirstPresent(datasets[n], LonNames) # {})
          => /\ last'.err = "ok"
             /\ datasets' = [i \in 1..Len(datasets) |-> Harmonized(datasets[i])]
             /\ harmonize(datasets', "same_name_allowed")
                    = [err |-> "ok", datasets |-> datasets']]_vars
\* and harmonize raises an error as soon as a dataset has no latitude name
\* or no longitude name
C39_HarmonizeRaisesWithoutName ==
    [][(/\ HarmonizeCalled
        /\ \E n \in 1..Len(datasets) :
              \/ FirstPresent(datasets[n], LatNames) = {}
              \/ FirstPresent(datasets[n], LonNames) = {})
          => last'.err = "ValueError"]_vars

====
